---- MODULE Spec2Model ----
(***************************************************************************)
(* Zonotope and constrained-zonotope propagation through feed-forward      *)
(* networks (src/network.py, src/zonotope.py, src/constrained_zonotope.py, *)
(* src/abstract.py).                                                        *)
(*                                                                          *)
(* Numbers.  The program computes in IEEE doubles.  A pair <<n, d>> with    *)
(* d > 0 (lowest terms) stands for the double nearest to n/d, which is n/d  *)
(* itself when d is a power of two; <<1, 0>> and <<-1, 0>> are              *)
(* float('+inf') and float('-inf'), <<0, 0>> is nan.  An operation returns  *)
(* the pair of its result when the operands determine it: when both are     *)
(* doubles held exactly (any operation; a quotient is then the correctly    *)
(* rounded one), when one is a power of two (product, quotient by it), when *)
(* one is 0, an infinity or nan.  Otherwise the rounded result depends on   *)
(* bits the pair does not hold and the operation returns Inexact, which     *)
(* stands for a double the model does not hold: any double.  A comparison   *)
(* with such an operand is open (the set of both truth values), and a       *)
(* branch of the program that tests it is a choice among the branches the   *)
(* test can select; the numbers computed in a row whose branch is open are  *)
(* not held either.  The Q operations are exact rational arithmetic, in     *)
(* which the properties about the real-valued functions are stated; a       *)
(* property that compares numbers reads a number that is not held as not    *)
(* known to violate it.                                                     *)
(* Arrays.  A vector is a sequence of numbers, a matrix a sequence of rows. *)
(* Layer biases are column arrays of shape (out, 1), as generate_network    *)
(* and Network.quantize build them; the flag bcol of an abstract value      *)
(* records whether its center b is such a column (after a linear            *)
(* transformation) or a flat array of shape (d,) (after lift, ReLU, clamp). *)
(***************************************************************************)
EXTENDS Integers, Sequences, FiniteSets, TLC

\* ------------------------------------------------------------------------
\* Arithmetic of numpy scalars
\* ------------------------------------------------------------------------

IAbs(n) == IF n < 0 THEN -n ELSE n

ISgn(n) == IF n < 0 THEN -1 ELSE IF n > 0 THEN 1 ELSE 0

RECURSIVE GCD(_, _)
GCD(a, b) == IF b = 0 THEN a ELSE GCD(b, a % b)

\* the number n/d in lowest terms with a positive denominator; n/0 is an infinity
Norm(n, d) ==
    IF d = 0 THEN <<ISgn(n), 0>>
    ELSE LET g == GCD(IAbs(n), IAbs(d))
             s == IF d < 0 THEN -1 ELSE 1
         IN  <<s * ISgn(n) * (IAbs(n) \div g), IAbs(d) \div g>>

R(n) == <<n, 1>>

Zero == R(0)

PosInf == <<1, 0>>

NegInf == <<-1, 0>>

IsFinite(x) == x[2] # 0

\* Exact rational arithmetic: what the operations below compute when the
\* result is a double, and the arithmetic in which properties are stated.
QAdd(x, y) ==
    IF x[2] = 0 THEN x
    ELSE IF y[2] = 0 THEN y
    ELSE IF x[1] = 0 THEN y
    ELSE IF y[1] = 0 THEN x
    ELSE IF x[2] = 1 /\ y[2] = 1 THEN <<x[1] + y[1], 1>>
    ELSE LET g == GCD(x[2], y[2])
         IN  Norm(x[1] * (y[2] \div g) + y[1] * (x[2] \div g), (x[2] \div g) * y[2])

\* products are reduced crosswise before they are multiplied
QMul(x, y) ==
    IF x[2] = 0 \/ y[2] = 0 THEN Norm(ISgn(x[1]) * ISgn(y[1]), 0)
    ELSE IF x[1] = 0 \/ y[1] = 0 THEN <<0, 1>>
    ELSE IF x[2] = 1 /\ y[2] = 1 THEN <<x[1] * y[1], 1>>
    ELSE LET g1 == GCD(IAbs(x[1]), y[2])
             g2 == GCD(IAbs(y[1]), x[2])
         IN  Norm((x[1] \div g1) * (y[1] \div g2), (x[2] \div g2) * (y[2] \div g1))

QDiv(x, y) ==
    IF x[2] = 0 \/ y[2] = 0 \/ y[1] = 0
    THEN Norm(x[1] * y[2] * (IF y[1] < 0 THEN -1 ELSE 1), IAbs(x[2] * y[1]))
    ELSE QMul(x, <<ISgn(y[1]) * y[2], IAbs(y[1])>>)

\* integer parts first, so that the remainders stay small
QLe(x, y) ==
    IF x[2] = 0 /\ y[2] = 0 THEN x[1] <= y[1]
    ELSE IF x[2] = 0 THEN x[1] < 0
    ELSE IF y[2] = 0 THEN y[1] > 0
    ELSE IF x[2] = y[2] THEN x[1] <= y[1]
    ELSE IF x[1] \div x[2] # y[1] \div y[2] THEN x[1] \div x[2] < y[1] \div y[2]
    ELSE LET g == GCD(x[2], y[2])
         IN  (x[1] % x[2]) * (y[2] \div g) <= (y[1] % y[2]) * (x[2] \div g)

\* exact sums and scalar products
RECURSIVE QSum(_)
QSum(s) == IF s = <<>> THEN Zero ELSE QAdd(Head(s), QSum(Tail(s)))

QDot(u, v) == QSum([j \in 1..Len(u) |-> QMul(u[j], v[j])])

\* float('nan')
NaN == <<0, 0>>

\* a double the model does not hold: the result of an operation whose
\* rounding the pairs of its operands do not determine.  It may be any
\* double, 0.0, an infinity and nan included.
Inexact == <<0, -1>>

\* the model holds x: a number, an infinity or nan
Known(x) == x[2] >= 0

\* d divides 2^30
IsPow2(d) == d >= 1 /\ 1073741824 % d = 0

\* x is held exactly: a dyadic rational, an infinity or nan
IsDouble(x) == x[2] = 0 \/ (x[2] > 0 /\ IsPow2(x[2]))

\* x is 2^k or -2^k: scaling by x commutes with rounding
IsPowerOfTwo(x) == x[2] > 0 /\ IsPow2(x[2]) /\ x[1] # 0 /\ IsPow2(IAbs(x[1]))

\* a * b stays within the numerators and denominators the pairs can hold
Fits(a, b, lim) == a = 0 \/ b = 0 \/ IAbs(a) <= lim \div IAbs(b)

\* A pair <<n, d>> with d > 0 stands for the double nearest to n/d.  The sum,
\* product and quotient of two doubles held exactly is the double nearest to
\* the exact result, and so is a product or quotient by a power of two;
\* every other result is Inexact, as is a result too long for a pair.
RAdd(x, y) ==
    IF x[2] < 0 \/ y[2] < 0 THEN Inexact
    ELSE IF x[2] = 0 /\ y[2] = 0 THEN (IF x = y THEN x ELSE NaN)
    ELSE IF x[2] = 0 THEN x
    ELSE IF y[2] = 0 THEN y
    ELSE IF x[1] = 0 THEN y
    ELSE IF y[1] = 0 THEN x
    ELSE IF x = <<-y[1], y[2]>> THEN <<0, 1>>
    ELSE IF IsPow2(x[2]) /\ IsPow2(y[2])
         THEN LET g == GCD(x[2], y[2])
              IN  IF Fits(x[1], y[2] \div g, 536870912) /\ Fits(y[1], x[2] \div g, 536870912)
                  THEN QAdd(x, y)
                  ELSE Inexact
    ELSE Inexact

RNeg(x) == IF x[2] < 0 THEN x ELSE <<-x[1], x[2]>>

RSub(x, y) == RAdd(x, RNeg(y))

RMul(x, y) ==
    IF x[2] < 0 \/ y[2] < 0 THEN Inexact
    ELSE IF x[2] = 0 \/ y[2] = 0
         THEN (IF x = NaN \/ y = NaN \/ x[1] = 0 \/ y[1] = 0 THEN NaN
               ELSE <<ISgn(x[1]) * ISgn(y[1]), 0>>)
    ELSE IF x[1] = 0 \/ y[1] = 0 THEN <<0, 1>>
    ELSE IF (IsPow2(x[2]) /\ IsPow2(y[2])) \/ IsPowerOfTwo(x) \/ IsPowerOfTwo(y)
         THEN (IF Fits(x[1], y[1], 1073741824) /\ Fits(x[2], y[2], 1073741824)
               THEN QMul(x, y)
               ELSE Inexact)
    ELSE Inexact

RDiv(x, y) ==
    IF x[2] < 0 \/ y[2] < 0 THEN Inexact
    ELSE IF x = NaN \/ y = NaN THEN NaN
    ELSE IF x[2] = 0 THEN (IF y[2] = 0 THEN NaN ELSE <<x[1] * (IF y[1] < 0 THEN -1 ELSE 1), 0>>)
    ELSE IF y[2] = 0 THEN <<0, 1>>
    ELSE IF y[1] = 0 THEN <<ISgn(x[1]), 0>>
    ELSE IF x[1] = 0 THEN <<0, 1>>
    ELSE IF (IsPow2(x[2]) /\ IsPow2(y[2])) \/ IsPowerOfTwo(y)
         THEN (IF Fits(x[1], y[2], 1073741824) /\ Fits(x[2], y[1], 1073741824)
               THEN QDiv(x, y)
               ELSE Inexact)
    ELSE Inexact

RHalf(x) == RDiv(x, R(2))

RAbs(x) == IF x[2] < 0 THEN x ELSE <<IAbs(x[1]), x[2]>>

\* The float64 a pair stands for.  BitsOf: the binary digits of a positive
\* integer, most significant first.
RECURSIVE BitsOf(_)
BitsOf(q) == IF q = 0 THEN <<>> ELSE Append(BitsOf(q \div 2), q % 2)

\* the first k binary digits of r/d after the point (0 <= r < d), then a
\* sticky digit: 1 when nonzero digits follow
RECURSIVE FracBits(_, _, _)
FracBits(r, d, k) ==
    IF k = 0 THEN <<IF r = 0 THEN 0 ELSE 1>>
    ELSE IF r >= d - r THEN <<1>> \o FracBits(r - (d - r), d, k - 1)
    ELSE <<0>> \o FracBits(r + r, d, k - 1)

\* r/d in (0, 1) as 2^(e+1) * r'/d with r'/d in [1/2, 1): the pair <<e, r'>>
RECURSIVE Normalize(_, _, _)
Normalize(r, d, e) == IF r >= d - r THEN <<e, r>> ELSE Normalize(r + r, d, e - 1)

\* the integer of a sequence of binary digits
RECURSIVE ToInt(_)
ToInt(bits) ==
    IF bits = <<>> THEN 0 ELSE 2 * ToInt(SubSeq(bits, 1, Len(bits) - 1)) + bits[Len(bits)]

\* Round to nearest, ties to even, of a significand given by 53 digits in a
\* high part of 26 and a low part of 27: up when the round digit is 1 and
\* the sticky digit or the last digit kept is; a carry out of the
\* significand moves to the next exponent.
Carry(e, hi, lo, up) ==
    IF ~up THEN <<e, hi, lo>>
    ELSE IF lo + 1 < 134217728 THEN <<e, hi, lo + 1>>
    ELSE IF hi + 1 < 67108864 THEN <<e, hi + 1, 0>>
    ELSE <<e + 1, 33554432, 0>>

\* e the exponent; digits the first 54 binary digits and the sticky digit
Rounded(e, digits) ==
    Carry(e, ToInt(SubSeq(digits, 1, 26)), ToInt(SubSeq(digits, 27, 53)),
          digits[54] = 1 /\ (digits[55] = 1 \/ digits[53] = 1))

\* n/d >= 1, lead the digits of its integer part
RoundedFrom(lead, n, d) ==
    Rounded(Len(lead) - 1, lead \o FracBits(n % d, d, 54 - Len(lead)))

\* n/d < 1, nz its normalisation
RoundedBelow(nz, d) == Rounded(nz[1], FracBits(nz[2], d, 54))

\* the double nearest to n/d > 0: its exponent e and its 53-digit significand
\* in two parts, <<e, hi, lo>>
Float64(n, d) ==
    IF n >= d THEN RoundedFrom(BitsOf(n \div d), n, d)
    ELSE RoundedBelow(Normalize(n, d, -1), d)

\* p <= q for two triples <<e, hi, lo>>
LexLe(p, q) ==
    \/ p[1] < q[1]
    \/ p[1] = q[1] /\ p[2] < q[2]
    \/ p[1] = q[1] /\ p[2] = q[2] /\ p[3] <= q[3]

\* x <= y for the doubles of two pairs (neither nan).  Two pairs whose cross
\* products stay below 2^30 are equal or differ by more than the spacing of
\* the doubles, so their doubles compare as the rationals; otherwise the
\* doubles themselves are compared.
DoubleLe(x, y) ==
    IF x[2] = 0 \/ y[2] = 0 \/ x[1] = 0 \/ y[1] = 0 \/ ISgn(x[1]) # ISgn(y[1])
    THEN QLe(x, y)
    ELSE IF Fits(x[1], y[2], 1073741824) /\ Fits(y[1], x[2], 1073741824)
    THEN x[1] * y[2] <= y[1] * x[2]
    ELSE IF x[1] > 0 THEN LexLe(Float64(x[1], x[2]), Float64(y[1], y[2]))
    ELSE LexLe(Float64(-y[1], y[2]), Float64(-x[1], x[2]))

\* A comparison of two numbers the model holds has the outcome the doubles
\* give (nan compares False with everything).  With an operand the model
\* does not hold the outcome is open: the comparison is the set of both
\* truth values, which no test can read as one of them.
RLe(x, y) ==
    IF ~Known(x) \/ ~Known(y) THEN BOOLEAN
    ELSE x # NaN /\ y # NaN /\ DoubleLe(x, y)

RLt(x, y) ==
    IF ~Known(x) \/ ~Known(y) THEN BOOLEAN
    ELSE x # NaN /\ y # NaN /\ ~DoubleLe(y, x)

RGe(x, y) == RLe(y, x)

RGt(x, y) == RLt(y, x)

\* the test may turn out True (MayLe, MayLt) or False (MayNotLe, MayNotLt)
MayLe(x, y) == ~Known(x) \/ ~Known(y) \/ RLe(x, y)

MayNotLe(x, y) == ~Known(x) \/ ~Known(y) \/ ~RLe(x, y)

MayLt(x, y) == ~Known(x) \/ ~Known(y) \/ RLt(x, y)

MayNotLt(x, y) == ~Known(x) \/ ~Known(y) \/ ~RLt(x, y)

\* np.minimum and np.maximum hand a nan on
RMin(x, y) ==
    IF x = NaN \/ y = NaN THEN NaN
    ELSE IF ~Known(x) \/ ~Known(y) THEN Inexact
    ELSE IF DoubleLe(x, y) THEN x ELSE y

RMax(x, y) ==
    IF x = NaN \/ y = NaN THEN NaN
    ELSE IF ~Known(x) \/ ~Known(y) THEN Inexact
    ELSE IF DoubleLe(x, y) THEN y ELSE x

\* Python's min(x, y): y when y < x, else x
PyMin(x, y) ==
    IF ~Known(x) \/ ~Known(y) THEN Inexact
    ELSE IF RLt(y, x) THEN y ELSE x

\* np.floor
RFloor(x) == IF x[2] <= 0 THEN x ELSE R(x[1] \div x[2])

\* 2 ** e for an integer exponent e of either sign
RECURSIVE IPow2(_)
IPow2(e) == IF e <= 0 THEN 1 ELSE 2 * IPow2(e - 1)

Pow2(e) == IF e >= 0 THEN <<IPow2(e), 1>> ELSE <<1, IPow2(-e)>>

\* ------------------------------------------------------------------------
\* Arrays
\* ------------------------------------------------------------------------

\* np.sum and np.dot add from the left
RECURSIVE SumSeq(_)
SumSeq(s) ==
    IF s = <<>> THEN Zero
    ELSE IF Len(s) = 1 THEN s[1]
    ELSE RAdd(SumSeq(SubSeq(s, 1, Len(s) - 1)), s[Len(s)])

Dot(u, v) == SumSeq([j \in 1..Len(u) |-> RMul(u[j], v[j])])

MatVec(M, v) == [i \in 1..Len(M) |-> Dot(M[i], v)]

Cols(M) == IF M = <<>> THEN 0 ELSE Len(M[1])

Column(M, j) == [i \in 1..Len(M) |-> M[i][j]]

MatMul(A, B) == [i \in 1..Len(A) |-> [j \in 1..Cols(B) |-> Dot(A[i], Column(B, j))]]

VecAdd(u, v) == [i \in 1..Len(u) |-> RAdd(u[i], v[i])]

VecSub(u, v) == [i \in 1..Len(u) |-> RSub(u[i], v[i])]

VecScale(a, v) == [i \in 1..Len(v) |-> RMul(a, v[i])]

VecNeg(v) == [i \in 1..Len(v) |-> RNeg(v[i])]

Zeros(n) == [j \in 1..n |-> Zero]

Eye(n) == [i \in 1..n |-> [j \in 1..n |-> IF i = j THEN R(1) ELSE Zero]]

\* a matrix that puts every coefficient in one shared first column
DiagShared(v) == [i \in 1..Len(v) |-> [j \in 1..Len(v) |-> IF j = 1 THEN v[i] ELSE Zero]]

Diag(v) == [i \in 1..Len(v) |-> [j \in 1..Len(v) |-> IF i = j THEN v[i] ELSE Zero]]

HStack(A, B) == [i \in 1..Len(A) |-> A[i] \o B[i]]

\* a row sum that forgets np.abs
SumPlain(row) == SumSeq(row)

SumAbs(row) == SumSeq([j \in 1..Len(row) |-> RAbs(row[j])])

\* np.pad(row, (0, n - len(row)), mode='constant')
PadRight(row, n) == row \o Zeros(n - Len(row))

\* abstract.clamp: np.minimum(np.maximum(value, min_val), max_val)
clamp(value, min_val, max_val) == RMin(RMax(value, min_val), max_val)


\* ------------------------------------------------------------------------
\* Layer (src/network.py)
\* ------------------------------------------------------------------------

\* Python's None, and an attribute that was never set on the object
None == <<>>

\* the truth value Python gives a bound in `if lower_bound:`: None and 0 are
\* falsy, nan and the infinities are truthy; open for a double the model
\* does not hold
Truthy(x) ==
    IF x = None THEN FALSE
    ELSE IF ~Known(x) THEN BOOLEAN
    ELSE x # Zero

\* Layer.__init__ raises ValueError
LayerInitRaises(weights, biases) == Len(weights) # Len(biases)

\* the Layer object Layer.__init__ builds
LayerInit(weights, biases, activation, lower_bound, upper_bound) ==
    [weights     |-> weights,
     biases      |-> biases,
     activation  |-> activation,
     lower_bound |-> IF Truthy(lower_bound) THEN lower_bound ELSE None,
     upper_bound |-> IF Truthy(upper_bound) THEN upper_bound ELSE None]

\* weights.shape[0] and weights.shape[1]
OutDim(layer) == Len(layer.weights)

InDim(layer) == Cols(layer.weights)

\* reading self.lower_bound or self.upper_bound raises AttributeError
ClampAttrMissing(layer) ==
    layer.activation = "clamp" /\ (layer.lower_bound = None \/ layer.upper_bound = None)

\* Layer.propagate on one point (a row vector of shape (1, in))
LayerPropagate(layer, vector) ==
    LET v == VecAdd(MatVec(layer.weights, vector), layer.biases)
    IN  IF layer.activation = "relu" THEN [i \in 1..Len(v) |-> RMax(Zero, v[i])]
        ELSE IF layer.activation = "clamp"
             THEN [i \in 1..Len(v) |-> clamp(RFloor(v[i]), layer.lower_bound, layer.upper_bound)]
        ELSE v

\* ------------------------------------------------------------------------
\* Network (src/network.py)
\* ------------------------------------------------------------------------

\* a dimension test that stops one pair early: `range(len(layers) - 2)`
NetworkInitRaisesShort(ls) ==
    \E i \in 1..(Len(ls) - 2) : OutDim(ls[i]) # InDim(ls[i + 1])

\* the dimension test of Network.__init__
NetworkInitRaises(ls) ==
    \E i \in 1..(Len(ls) - 1) : OutDim(ls[i]) # InDim(ls[i + 1])

\* the keys Network.quantize reads from the configuration, in the order it reads them
ConfigKeys ==
    <<"Fw", "Fb", "Fin", "Fh", "Clb_in", "Cub_in", "Clb_w", "Cub_w", "Clb_b", "Cub_b", "Cub_h">>

\* configuration[key] raises KeyError for some key
ConfigKeyError(configuration) ==
    \E k \in 1..Len(ConfigKeys) : ConfigKeys[k] \notin DOMAIN configuration

\* (2 ** exponent) * clamp(np.floor(value * (2 ** F)), Clb, Cub)
QuantizeValue(value, F, Clb, Cub, exponent) ==
    RMul(Pow2(exponent), clamp(RFloor(RMul(value, Pow2(F))), Clb, Cub))

\* a rewrite that rescales the layer but leaves its activation tag alone
QuantizeLayerKeepTag(layer, c, exponent1, exponent2) ==
    [weights     |-> [i \in 1..Len(layer.weights) |->
                        [j \in 1..Len(layer.weights[i]) |->
                            QuantizeValue(layer.weights[i][j], c.Fw, c.Clb_w, c.Cub_w, exponent1)]],
     biases      |-> [i \in 1..Len(layer.biases) |->
                        QuantizeValue(layer.biases[i], c.Fb, c.Clb_b, c.Cub_b, exponent2)],
     activation  |-> layer.activation,
     lower_bound |-> IF layer.activation = "relu" THEN Zero ELSE layer.lower_bound,
     upper_bound |-> IF layer.activation = "relu" THEN c.Cub_h ELSE layer.upper_bound]

\* the rewrite quantize applies to one layer, with the exponents of its position
QuantizeLayer(layer, c, exponent1, exponent2) ==
    [weights     |-> [i \in 1..Len(layer.weights) |->
                        [j \in 1..Len(layer.weights[i]) |->
                            QuantizeValue(layer.weights[i][j], c.Fw, c.Clb_w, c.Cub_w, exponent1)]],
     biases      |-> [i \in 1..Len(layer.biases) |->
                        QuantizeValue(layer.biases[i], c.Fb, c.Clb_b, c.Cub_b, exponent2)],
     activation  |-> IF layer.activation = "relu" THEN "clamp" ELSE layer.activation,
     lower_bound |-> IF layer.activation = "relu" THEN Zero ELSE layer.lower_bound,
     upper_bound |-> IF layer.activation = "relu" THEN c.Cub_h ELSE layer.upper_bound]

\* the exponents of layers[0]
FirstExponents(c, version) ==
    IF version = 1 THEN <<c.Fh - c.Fw - c.Fin, c.Fh - c.Fb>>
    ELSE <<-c.Fw - c.Fin, -c.Fb>>

\* the exponents of layers[1 .. len - 2]
MiddleExponents(c, version) ==
    IF version = 1 THEN <<c.Fh - c.Fw, c.Fh - c.Fb>>
    ELSE <<-c.Fw, -c.Fb>>

\* the exponents of layers[-1]; n is len(self.layers)
LastExponents(c, version, n) ==
    IF version = 1 THEN <<-c.Fw - (n - 2) * c.Fh, -c.Fb - (n - 2) * c.Fh>>
    ELSE <<-c.Fw, -c.Fb>>

\* the input-quantization layer quantize prepends
InputLayer(ls, c) ==
    LayerInit([i \in 1..InDim(ls[1]) |-> VecScale(Pow2(c.Fin), Eye(InDim(ls[1]))[i])],
              Zeros(InDim(ls[1])), "clamp", c.Clb_in, c.Cub_in)

\* self.layers after the body of Network.quantize: layers[0], then the middle
\* layers, then layers[-1] (the same object as layers[0] when there is one layer)
QuantizedLayers(ls, c, version) ==
    LET n  == Len(ls)
        e0 == FirstExponents(c, version)
        em == MiddleExponents(c, version)
        el == LastExponents(c, version, n)
        s1 == [ls EXCEPT ![1] = QuantizeLayer(ls[1], c, e0[1], e0[2])]
        s2 == [i \in 1..n |-> IF 1 < i /\ i < n
                              THEN QuantizeLayer(s1[i], c, em[1], em[2]) ELSE s1[i]]
        s3 == [i \in 1..n |-> IF i = n
                              THEN QuantizeLayer(s2[n], c, el[1], el[2]) ELSE s2[i]]
    IN  <<InputLayer(s3, c)>> \o s3

\* Network.propagate on one point
RECURSIVE NetworkPropagateFrom(_, _, _)
NetworkPropagateFrom(ls, i, vector) ==
    IF i > Len(ls) THEN vector
    ELSE NetworkPropagateFrom(ls, i + 1, LayerPropagate(ls[i], vector))

NetworkPropagate(ls, vector) == NetworkPropagateFrom(ls, 1, vector)

\* ------------------------------------------------------------------------
\* Boxes and vertices (src/abstract.py)
\* ------------------------------------------------------------------------

\* abstract_to_vertices: itertools.product of the rows of the box, first row slowest
RECURSIVE abstract_to_vertices(_)
abstract_to_vertices(box) ==
    IF box = <<>> THEN << <<>> >>
    ELSE LET rest == abstract_to_vertices(Tail(box))
             n    == Len(rest)
         IN  [k \in 1..(2 * n) |->
                <<Head(box)[IF k <= n THEN 1 ELSE 2]>> \o rest[IF k <= n THEN k ELSE k - n]]

RECURSIVE MinSeq(_)
MinSeq(s) == IF Len(s) = 1 THEN s[1] ELSE RMin(s[1], MinSeq(Tail(s)))

RECURSIVE MaxSeq(_)
MaxSeq(s) == IF Len(s) = 1 THEN s[1] ELSE RMax(s[1], MaxSeq(Tail(s)))

\* concretize_to_box: per-dimension minimum and maximum of a batch of vertices
concretize_to_box(vertices) ==
    [j \in 1..Len(vertices[1]) |->
        <<MinSeq([k \in 1..Len(vertices) |-> vertices[k][j]]),
          MaxSeq([k \in 1..Len(vertices) |-> vertices[k][j]])>>]

\* Layer.propagate_vertices on a batch
LayerPropagateVertices(layer, vertices) ==
    [k \in 1..Len(vertices) |-> LayerPropagate(layer, vertices[k])]

\* the box the abstract pipeline starts from: lines 199-207 and 220-228 of network.py
StartBox(ls, q, box) ==
    IF q THEN concretize_to_box(LayerPropagateVertices(ls[1], abstract_to_vertices(box)))
    ELSE box

\* Network.propagate_vertices: the box of the images of the corners
RECURSIVE VerticesFrom(_, _, _)
VerticesFrom(ls, i, vertices) ==
    IF i > Len(ls) THEN vertices
    ELSE VerticesFrom(ls, i + 1, LayerPropagateVertices(ls[i], vertices))

NetworkPropagateVertices(ls, box) ==
    concretize_to_box(VerticesFrom(ls, 1, abstract_to_vertices(box)))

\* ------------------------------------------------------------------------
\* Zonotope (src/zonotope.py)
\* ------------------------------------------------------------------------

\* abstract_to_zonotope
abstract_to_zonotope(box) ==
    [W    |-> Diag([i \in 1..Len(box) |-> RHalf(RSub(box[i][2], box[i][1]))]),
     b    |-> [i \in 1..Len(box) |-> RHalf(RAdd(box[i][1], box[i][2]))],
     bcol |-> FALSE]

\* linear_transformation (of both domains): the new W and b
LinearW(z, weights) == MatMul(weights, z.W)

LinearB(z, weights, biases) == VecAdd(MatVec(weights, z.b), biases)

ZLinearTransformation(z, weights, biases) ==
    [W |-> LinearW(z, weights), b |-> LinearB(z, weights, biases), bcol |-> TRUE]

\* Zonotope.bounds: lower and upper bound of every row
LowerBounds(z) == [i \in 1..Len(z.W) |-> RSub(z.b[i], SumAbs(z.W[i]))]

UpperBounds(z) == [i \in 1..Len(z.W) |-> RAdd(z.b[i], SumAbs(z.W[i]))]

\* concretize (of both domains): np.stack(...)[0].T is one pair per row when b
\* is a column, and the pair of row 0 alone, as a flat array, when b is flat
\* (flat: the array returned is [lower_0, upper_0], held here as the one row)
Concretize(z) ==
    IF z.bcol
    THEN [flat |-> FALSE,
          rows |-> [i \in 1..Len(z.W) |-> <<LowerBounds(z)[i], UpperBounds(z)[i]>>]]
    ELSE [flat |-> TRUE, rows |-> << <<LowerBounds(z)[1], UpperBounds(z)[1]>> >>]

\* a branch test that asks `l >= 0` before `u <= 0`
ReLUCaseSwapped(l, u) ==
    IF ~Known(l) THEN "open"
    ELSE IF RGe(l, Zero) THEN "identity"
    ELSE IF ~Known(u) THEN "open"
    ELSE IF RLe(u, Zero) THEN "zero"
    ELSE "unstable"

\* the branch abstract_ReLU takes for bounds l, u; "open" when a test it
\* comes to has an operand the model does not hold
ReLUCase(l, u) ==
    IF ~Known(u) THEN "open"
    ELSE IF RLe(u, Zero) THEN "zero"
    ELSE IF ~Known(l) THEN "open"
    ELSE IF RGe(l, Zero) THEN "identity"
    ELSE "unstable"

\* the branches abstract_ReLU can take for bounds l, u: the one the tests give,
\* or every branch the tests the model can evaluate leave possible
ReLUBranches(l, u) ==
    IF ReLUCase(l, u) # "open" THEN {ReLUCase(l, u)}
    ELSE {cs \in {"zero", "identity", "unstable"} :
            \/ cs = "zero" /\ MayLe(u, Zero)
            \/ cs = "identity" /\ MayNotLe(u, Zero) /\ MayLe(Zero, l)
            \/ cs = "unstable" /\ MayNotLe(u, Zero) /\ MayNotLe(Zero, l)}

\* one branch per row, each among the branches of the row
CaseVectors(branches) ==
    {cases \in [1..Len(branches) -> UNION {branches[i] : i \in 1..Len(branches)}] :
        \A i \in 1..Len(branches) : cases[i] \in branches[i]}

\* a slope taken from the lower bound: -l / (u - l)
ReLUSlopeLower(l, u) == RDiv(RNeg(l), RSub(u, l))

\* a_param and b_param of the unstable ReLU case
ReLUSlope(l, u) == RDiv(u, RSub(u, l))

\* an offset that drops the sign: u * l / (u - l)
ReLUOffsetUnsigned(l, u) == RDiv(RMul(u, l), RSub(u, l))

ReLUOffset(l, u) == RDiv(RMul(RNeg(u), l), RSub(u, l))

\* the divisions of the unstable case (lines 97-98) have a zero divisor
ReLUDividesByZero(l, u) == ReLUCase(l, u) = "unstable" /\ RSub(u, l) = Zero

\* the branch abstract_clamp takes for bounds l, u and upper saturation C_ub:
\* "none" when none of its six tests holds (the last is an elif without an
\* else), "open" when a test has an operand the model does not hold
ClampCase(l, u, C_ub) ==
    IF ~Known(u) THEN "open"
    ELSE IF RLe(u, Zero) THEN "below"
    ELSE IF ~Known(l) \/ ~Known(C_ub) THEN "open"
    ELSE IF RGe(l, C_ub) THEN "above"
    ELSE IF RGe(l, Zero) /\ RLe(u, C_ub) THEN "inside"
    ELSE IF RLt(l, Zero) /\ RLe(C_ub, u) THEN "mixed_both"
    ELSE IF RLt(l, Zero) /\ RLe(u, C_ub) THEN "mixed_low"
    ELSE IF RGe(l, Zero) /\ RLt(C_ub, u) THEN "mixed_high"
    ELSE "none"

\* the branches that assign a_param and b_param
MixedCases == {"mixed_both", "mixed_low", "mixed_high"}

\* the branches abstract_clamp can take for bounds l, u
ClampBranches(l, u, C_ub) ==
    IF ClampCase(l, u, C_ub) # "open" THEN {ClampCase(l, u, C_ub)}
    ELSE LET inside == MayLe(Zero, l) /\ MayLe(u, C_ub)
             notInside == MayNotLe(Zero, l) \/ MayNotLe(u, C_ub)
             both == MayLt(l, Zero) /\ MayLe(C_ub, u)
             notBoth == MayNotLt(l, Zero) \/ MayNotLe(C_ub, u)
             low == MayLt(l, Zero) /\ MayLe(u, C_ub)
             notLow == MayNotLt(l, Zero) \/ MayNotLe(u, C_ub)
             high == MayLe(Zero, l) /\ MayLt(C_ub, u)
             notHigh == MayNotLe(Zero, l) \/ MayNotLt(C_ub, u)
             mixed == MayNotLe(u, Zero) /\ MayNotLe(C_ub, l) /\ notInside
         IN  {cs \in {"below", "above", "inside", "none"} \cup MixedCases :
                \/ cs = "below" /\ MayLe(u, Zero)
                \/ cs = "above" /\ MayNotLe(u, Zero) /\ MayLe(C_ub, l)
                \/ cs = "inside" /\ MayNotLe(u, Zero) /\ MayNotLe(C_ub, l) /\ inside
                \/ cs = "mixed_both" /\ mixed /\ both
                \/ cs = "mixed_low" /\ mixed /\ notBoth /\ low
                \/ cs = "mixed_high" /\ mixed /\ notBoth /\ notLow /\ high
                \/ cs = "none" /\ mixed /\ notBoth /\ notLow /\ notHigh}

\* a_param and b_param of the three mixed clamp cases
ClampSlope(cs, l, u, C_ub) ==
    IF cs = "mixed_both" THEN PyMin(RDiv(C_ub, RSub(C_ub, l)), RDiv(C_ub, u))
    ELSE IF cs = "mixed_low" THEN RDiv(u, RSub(u, l))
    ELSE RDiv(RSub(C_ub, l), RSub(u, l))

ClampOffset(cs, l, u, C_ub) ==
    IF cs = "mixed_both" THEN RMul(RSub(R(1), ClampSlope(cs, l, u, C_ub)), C_ub)
    ELSE IF cs = "mixed_low" THEN RDiv(RMul(RNeg(u), l), RSub(u, l))
    ELSE RMul(RSub(C_ub, l), RSub(R(1), ClampSlope(cs, l, u, C_ub)))

\* the branches the rows of abstract_ReLU can take, row by row
ReLUCases(z) ==
    CaseVectors([i \in 1..Len(z.W) |-> ReLUBranches(LowerBounds(z)[i], UpperBounds(z)[i])])

\* n numbers the model does not hold
OpenVec(n) == [j \in 1..n |-> Inexact]

\* Zonotope.abstract_ReLU: W_new, W_diag and b_new of row i in branch cs.
\* The numbers of a row whose branch is open are not held: cs is then one of
\* the branches the row can take, not the one it is known to take.
ZReLURow(z, i, cs) ==
    LET l  == LowerBounds(z)[i]
        u  == UpperBounds(z)[i]
    IN  IF ReLUCase(l, u) = "open"
        THEN [row |-> OpenVec(Cols(z.W)), diag |-> Inexact, bias |-> Inexact]
        ELSE IF cs = "zero" THEN [row |-> Zeros(Cols(z.W)), diag |-> Zero, bias |-> Zero]
        ELSE IF cs = "identity" THEN [row |-> z.W[i], diag |-> Zero, bias |-> z.b[i]]
        ELSE [row  |-> VecScale(ReLUSlope(l, u), z.W[i]),
              diag |-> RHalf(ReLUOffset(l, u)),
              bias |-> RAdd(RMul(ReLUSlope(l, u), z.b[i]), RHalf(ReLUOffset(l, u)))]

\* cases[i] is the branch row i takes
ZAbstractReLU(z, cases) ==
    [W    |-> HStack([i \in 1..Len(z.W) |-> ZReLURow(z, i, cases[i]).row],
                     Diag([i \in 1..Len(z.W) |-> ZReLURow(z, i, cases[i]).diag])),
     b    |-> [i \in 1..Len(z.W) |-> ZReLURow(z, i, cases[i]).bias],
     bcol |-> FALSE]

\* the branches the rows of abstract_clamp can take, row by row
ClampCases(z, C_ub) ==
    CaseVectors([i \in 1..Len(z.W) |->
                    ClampBranches(LowerBounds(z)[i], UpperBounds(z)[i], C_ub)])

\* the row whose a_param and b_param line 165 reads in row i: row i itself
\* in a mixed branch; when no test holds, the latest earlier row that took a
\* mixed branch (0: the names are unbound)
ParamRow(cases, i) ==
    IF cases[i] # "none" THEN i
    ELSE LET earlier == {j \in 1..(i - 1) : cases[j] \in MixedCases}
         IN  IF earlier = {} THEN 0
             ELSE CHOOSE j \in earlier : \A k \in earlier : k <= j

\* Zonotope.abstract_clamp raises UnboundLocalError at line 165
ZClampRaises(cases) == \E i \in 1..Len(cases) : ParamRow(cases, i) = 0

\* Zonotope.abstract_clamp: W_new, W_diag and b_new of row i
ZClampRow(z, i, C_ub, cases) ==
    LET cs == cases[i]
        p  == ParamRow(cases, i)
        a_param == ClampSlope(cases[p], LowerBounds(z)[p], UpperBounds(z)[p], C_ub)
        b_param == ClampOffset(cases[p], LowerBounds(z)[p], UpperBounds(z)[p], C_ub)
    IN  IF ClampCase(LowerBounds(z)[i], UpperBounds(z)[i], C_ub) = "open"
           \/ ClampCase(LowerBounds(z)[p], UpperBounds(z)[p], C_ub) = "open"
        THEN [row |-> OpenVec(Cols(z.W)), diag |-> Inexact, bias |-> Inexact]
        ELSE IF cs = "below" THEN [row |-> Zeros(Cols(z.W)), diag |-> Zero, bias |-> Zero]
        ELSE IF cs = "above" THEN [row |-> Zeros(Cols(z.W)), diag |-> Zero, bias |-> C_ub]
        ELSE IF cs = "inside" THEN [row |-> z.W[i], diag |-> Zero, bias |-> z.b[i]]
        ELSE [row  |-> VecScale(a_param, z.W[i]),
              diag |-> RHalf(b_param),
              bias |-> RAdd(RMul(a_param, z.b[i]), RHalf(b_param))]

ZAbstractClamp(z, C_ub, cases) ==
    [W    |-> HStack([i \in 1..Len(z.W) |-> ZClampRow(z, i, C_ub, cases).row],
                     Diag([i \in 1..Len(z.W) |-> ZClampRow(z, i, C_ub, cases).diag])),
     b    |-> [i \in 1..Len(z.W) |-> ZClampRow(z, i, C_ub, cases).bias],
     bcol |-> FALSE]

\* abstract_floor (of both domains): W and b
FloorW(z) == HStack(z.W, [i \in 1..Len(z.W) |-> VecScale(RHalf(R(1)), Eye(Len(z.W))[i])])

FloorB(z) == [i \in 1..Len(z.b) |-> RSub(z.b[i], RHalf(R(1)))]

ZAbstractFloor(z) == [W |-> FloorW(z), b |-> FloorB(z), bcol |-> z.bcol]

\* ------------------------------------------------------------------------
\* ConstrainedZonotope (src/constrained_zonotope.py)
\* A constraint is a pair <<row, bound>>, appended as (row, bound).
\* ------------------------------------------------------------------------

\* abstract_to_constrained_zonotope
abstract_to_constrained_zonotope(box) ==
    [W |-> abstract_to_zonotope(box).W, b |-> abstract_to_zonotope(box).b,
     bcol |-> FALSE, constraints |-> <<>>]

CZLinearTransformation(cz, weights, biases) ==
    [W |-> LinearW(cz, weights), b |-> LinearB(cz, weights, biases),
     bcol |-> TRUE, constraints |-> cz.constraints]

CZAbstractFloor(cz) ==
    [W |-> FloorW(cz), b |-> FloorB(cz), bcol |-> cz.bcol, constraints |-> cz.constraints]

\* a row read from a self.W that is not widened between the iterations
WidenedRowStale(cz, i) == cz.W[i]

\* self.W[i] in iteration i of the loops of abstract_ReLU and abstract_clamp:
\* self.W has been widened by one zero column in each earlier iteration
WidenedRow(cz, i) == PadRight(cz.W[i], Cols(cz.W) + i - 1)

\* np.hstack((row, x))
Append1(row, x) == row \o <<x>>

\* a constraint of n coefficients the model does not hold
OpenConstraint(n) == <<OpenVec(n), Inexact>>

\* the row, the bias and the constraints of one iteration, none of their
\* numbers held
OpenIteration(it) ==
    [row  |-> OpenVec(Len(it.row)),
     bias |-> Inexact,
     cons |-> [k \in 1..Len(it.cons) |-> OpenConstraint(Len(it.cons[k][1]))]]

\* one iteration of the loop of abstract_ReLU in branch cs: new_row, new_bias
\* and the constraints it appends, in the order it appends them; the numbers
\* of a row whose branch is open are not held
CZReLURow(cz, i, version, cs) ==
    LET l        == LowerBounds(cz)[i]
        u        == UpperBounds(cz)[i]
        w        == WidenedRow(cz, i)
        old_row  == Append1(w, Zero)
        old_bias == cz.b[i]
        a_param  == ReLUSlope(l, u)
        b_param  == ReLUOffset(l, u)
        it ==
            IF cs = "zero" THEN [row |-> Append1(Zeros(Len(w)), Zero), bias |-> Zero, cons |-> <<>>]
                ELSE IF cs = "identity" THEN [row |-> Append1(w, Zero), bias |-> cz.b[i], cons |-> <<>>]
                ELSE IF version = "standard"
                THEN LET new_row  == Append1(VecScale(a_param, w), RHalf(b_param))
                         new_bias == RAdd(RMul(a_param, cz.b[i]), RHalf(b_param))
                     IN  [row |-> new_row, bias |-> new_bias,
                          cons |-> << <<new_row, new_bias>>,
                                      <<VecSub(new_row, old_row), RSub(new_bias, old_bias)>> >>]
                ELSE LET new_row  == Append1(VecScale(Zero, w), RHalf(u))
                         new_bias == RHalf(u)
                     IN  [row |-> new_row, bias |-> new_bias,
                          cons |-> << <<VecSub(new_row, old_row), RSub(new_bias, old_bias)>>,
                                      <<VecSub(VecScale(a_param, old_row), new_row),
                                        RSub(RAdd(RMul(a_param, old_bias), b_param), new_bias)>> >>]
    IN  IF ReLUCase(l, u) = "open" THEN OpenIteration(it) ELSE it

\* the body of one iteration of the loop of abstract_clamp in branch cs (a
\* branch that assigns new_row): new_row, new_bias and the constraints it
\* appends, in the order it appends them, from self.W[i] (w), self.b[i]
\* (old_bias), the bounds l[i], u[i] and a_param, b_param of the branch
CZClampIteration(w, old_bias, l, u, C_ub, version, cs, a_param, b_param) ==
    LET old_row  == Append1(w, Zero)
        std_row  == Append1(VecScale(a_param, w), RHalf(b_param))
        std_bias == RAdd(RMul(a_param, old_bias), RHalf(b_param))
        k_low    == RDiv(C_ub, RSub(C_ub, l))
        k_up     == RDiv(C_ub, u)
        \* ((C_ub / (C_ub - l)) * old_row - new_row, ... - (l * C_ub) / (C_ub - l) - new_bias)
        LowCut(new_row, new_bias) ==
            <<VecSub(VecScale(k_low, old_row), new_row),
              RSub(RSub(RMul(k_low, old_bias), RDiv(RMul(l, C_ub), RSub(C_ub, l))), new_bias)>>
        \* (new_row - (C_ub / u) * old_row, new_bias - (C_ub / u) * old_bias)
        UpCut(new_row, new_bias) ==
            <<VecSub(new_row, VecScale(k_up, old_row)), RSub(new_bias, RMul(k_up, old_bias))>>
    IN  IF cs = "below" THEN [row |-> Append1(Zeros(Len(w)), Zero), bias |-> Zero, cons |-> <<>>]
        ELSE IF cs = "above" THEN [row |-> Append1(Zeros(Len(w)), Zero), bias |-> C_ub, cons |-> <<>>]
        ELSE IF cs = "inside" THEN [row |-> Append1(w, Zero), bias |-> old_bias, cons |-> <<>>]
        ELSE IF cs = "mixed_both"
        THEN IF version = "standard"
             THEN [row |-> std_row, bias |-> std_bias,
                   cons |-> << <<std_row, std_bias>>,
                               <<VecNeg(std_row), RSub(C_ub, std_bias)>>,
                               \* `if C_ub - l[i] >= u[i]`: one of the two cuts when the test is open
                               IF ~Known(RSub(C_ub, l)) \/ ~Known(u) THEN OpenConstraint(Len(std_row))
                               ELSE IF RGe(RSub(C_ub, l), u) THEN UpCut(std_row, std_bias)
                               ELSE LowCut(std_row, std_bias) >>]
             ELSE LET new_row  == Append1(VecScale(Zero, w), RHalf(C_ub))
                      new_bias == RHalf(C_ub)
                  IN  [row |-> new_row, bias |-> new_bias,
                       cons |-> <<LowCut(new_row, new_bias), UpCut(new_row, new_bias)>>]
        ELSE IF cs = "mixed_low"
        THEN IF version = "standard"
             THEN [row |-> std_row, bias |-> std_bias,
                   cons |-> << <<std_row, std_bias>>,
                               <<VecSub(std_row, old_row), RSub(std_bias, old_bias)>> >>]
             ELSE LET new_row  == Append1(VecScale(Zero, w), RHalf(u))
                      new_bias == RHalf(u)
                  IN  [row |-> new_row, bias |-> new_bias,
                       cons |-> << <<VecSub(new_row, old_row), RSub(new_bias, old_bias)>>,
                                   <<VecSub(VecScale(a_param, old_row), new_row),
                                     RSub(RAdd(RMul(a_param, old_bias), b_param), new_bias)>> >>]
        ELSE IF version = "standard"
             THEN [row |-> std_row, bias |-> std_bias,
                   cons |-> << <<VecSub(old_row, std_row), RSub(old_bias, std_bias)>>,
                               <<VecNeg(std_row), RSub(C_ub, std_bias)>> >>]
             ELSE LET new_row  == Append1(VecScale(Zero, w), RHalf(RSub(C_ub, l)))
                      new_bias == RHalf(RAdd(C_ub, l))
                  IN  [row |-> new_row, bias |-> new_bias,
                       cons |-> << <<VecSub(old_row, new_row), RSub(old_bias, new_bias)>>,
                                   <<VecSub(new_row, VecScale(a_param, old_row)),
                                     RSub(RSub(new_bias, RMul(a_param, old_bias)), b_param)>> >>]

\* one iteration of the loop of abstract_clamp on row i; the numbers of a row
\* whose branch is open are not held
CZClampRow(cz, i, C_ub, version, cs) ==
    LET l  == LowerBounds(cz)[i]
        u  == UpperBounds(cz)[i]
        it == CZClampIteration(WidenedRow(cz, i), cz.b[i], l, u, C_ub, version, cs,
                               ClampSlope(cs, l, u, C_ub), ClampOffset(cs, l, u, C_ub))
    IN  IF ClampCase(l, u, C_ub) = "open" THEN OpenIteration(it) ELSE it

\* the constraints the rows 1..i of a transformer append, in order
RECURSIVE AppendedBy(_, _)
AppendedBy(rows, i) == IF i = 0 THEN <<>> ELSE AppendedBy(rows, i - 1) \o rows[i].cons

\* a transformer that keeps only the constraints it appends itself
CZFromRowsFresh(cz, rows) ==
    [W    |-> [i \in 1..Len(cz.W) |-> PadRight(rows[i].row, Cols(cz.W) + Len(cz.W))],
     b    |-> [i \in 1..Len(cz.W) |-> rows[i].bias],
     bcol |-> FALSE,
     constraints |-> AppendedBy(rows, Len(cz.W))]

\* a transformer that stores its rows but leaves the generator at its old width
CZFromRowsNarrow(cz, rows) ==
    [W    |-> [i \in 1..Len(cz.W) |-> SubSeq(rows[i].row, 1, Cols(cz.W))],
     b    |-> [i \in 1..Len(cz.W) |-> rows[i].bias],
     bcol |-> FALSE,
     constraints |-> cz.constraints \o AppendedBy(rows, Len(cz.W))]

\* a transformer that stores the constraints of its last row only
CZFromRowsLast(cz, rows) ==
    [W    |-> [i \in 1..Len(cz.W) |-> PadRight(rows[i].row, Cols(cz.W) + Len(cz.W))],
     b    |-> [i \in 1..Len(cz.W) |-> rows[i].bias],
     bcol |-> FALSE,
     constraints |-> cz.constraints \o rows[Len(cz.W)].cons]

\* W_new, b_new and self.constraints once the loop has run over every row
CZFromRows(cz, rows) ==
    [W    |-> [i \in 1..Len(cz.W) |-> PadRight(rows[i].row, Cols(cz.W) + Len(cz.W))],
     b    |-> [i \in 1..Len(cz.W) |-> rows[i].bias],
     bcol |-> FALSE,
     constraints |-> cz.constraints \o AppendedBy(rows, Len(cz.W))]

CZAbstractReLU(cz, version, cases) ==
    CZFromRows(cz, [i \in 1..Len(cz.W) |-> CZReLURow(cz, i, version, cases[i])])

\* ConstrainedZonotope.abstract_clamp raises at line 295, `W_new[i] = new_row`:
\* in row 0 new_row is unbound; in a later row it is the new_row of the
\* iteration before, one column short of W_new[i]
\* the first row in which no test of abstract_clamp holds (0: there is none)
FirstNone(cases) ==
    IF \A i \in 1..Len(cases) : cases[i] # "none" THEN 0
    ELSE CHOOSE i \in 1..Len(cases) :
            cases[i] = "none" /\ \A j \in 1..(i - 1) : cases[j] # "none"

CZClampRaises(cases) == FirstNone(cases) # 0

CZClampError(cases) == IF FirstNone(cases) = 1 THEN "UnboundLocalError" ELSE "ValueError"

\* the object abstract_clamp leaves behind when it raises in row k: self.W
\* widened by the k - 1 iterations that ended, self.constraints appended to
\* in place by them, self.b untouched
CZClampRaised(cz, C_ub, version, cases) ==
    [W    |-> [i \in 1..Len(cz.W) |-> PadRight(cz.W[i], Cols(cz.W) + FirstNone(cases) - 1)],
     b    |-> cz.b,
     bcol |-> cz.bcol,
     constraints |->
         cz.constraints
             \o AppendedBy([i \in 1..Len(cz.W) |-> CZClampRow(cz, i, C_ub, version, cases[i])],
                           FirstNone(cases) - 1)]

CZAbstractClamp(cz, C_ub, version, cases) ==
    CZFromRows(cz, [i \in 1..Len(cz.W) |-> CZClampRow(cz, i, C_ub, version, cases[i])])

\* ------------------------------------------------------------------------
\* ConstrainedZonotope.final_concretize
\* ------------------------------------------------------------------------

IMax(a, b) == IF a >= b THEN a ELSE b

\* max_len: the longest stored row (0 when nothing is stored)
RECURSIVE MaxLen(_)
MaxLen(constraints) ==
    IF constraints = <<>> THEN 0
    ELSE IMax(Len(Head(constraints)[1]), MaxLen(Tail(constraints)))

\* A: every stored row, zero-padded on the right to max(m, max_len) columns
PaddedA(cz) ==
    LET n == IMax(Cols(cz.W), MaxLen(cz.constraints))
    IN  [k \in 1..Len(cz.constraints) |-> PadRight(cz.constraints[k][1], n)]

\* b_vals
BVals(cz) == [k \in 1..Len(cz.constraints) |-> cz.constraints[k][2]]

\* The K constraint functions are `lambda x: A[j] @ x.T + b_vals[j]`, built in
\* `for j in range(K)`.  Each lambda reads j when the solver calls it, after
\* the loop has ended, so function number k evaluates row K, whatever k is.
HandedIndex(K, k) == K

\* the value of constraint function number k at the point x ('ineq': wanted >= 0)
ConstraintFun(cz, k, x) ==
    RAdd(Dot(PaddedA(cz)[HandedIndex(Len(cz.constraints), k)], x),
         BVals(cz)[HandedIndex(Len(cz.constraints), k)])

\* the distinct <<row, bound>> pairs the handed functions evaluate
HandedRows(cz) ==
    LET K == Len(cz.constraints)
        A == PaddedA(cz)
        b_vals == BVals(cz)
    IN  {<<A[HandedIndex(K, k)], b_vals[HandedIndex(K, k)]>> : k \in 1..K}

\* x is in the feasible set final_concretize hands to the solver: it is in
\* [-1,1]^m and every handed function is >= 0 at x
HandedFeasible(cz, x) ==
    /\ \A j \in 1..Len(x) : RLe(R(-1), x[j]) /\ RLe(x[j], R(1))
    /\ \A r \in HandedRows(cz) : RGe(RAdd(Dot(r[1], x), r[2]), Zero)

\* A[j] @ x.T raises ValueError: a stored row is wider than the generator
FinalConcretizeRaises(cz) ==
    cz.constraints # <<>> /\ MaxLen(cz.constraints) > Cols(cz.W)

\* the linear program of c and rows is made of finite doubles held exactly
LPHeld(c, rows) ==
    /\ \A j \in 1..Len(c) : IsDouble(c[j]) /\ IsFinite(c[j])
    /\ \A r \in rows :
          /\ IsDouble(r[2]) /\ IsFinite(r[2])
          /\ \A j \in 1..Len(r[1]) : IsDouble(r[1][j]) /\ IsFinite(r[1][j])

\* cost |c_j| / |a_j| of raising a.x by one unit through coordinate j
Ratio(c, a, j) == QDiv(RAbs(c[j]), RAbs(a[j]))

\* the least cost of raising a.x by D, moving the coordinates of J away from
\* the unconstrained minimiser, cheapest coordinate first; PosInf if impossible
RECURSIVE Repair(_, _, _, _)
Repair(J, D, c, a) ==
    IF QLe(D, Zero) THEN Zero
    ELSE IF J = {} THEN PosInf
    ELSE LET j    == CHOOSE j \in J : \A k \in J : QLe(Ratio(c, a, j), Ratio(c, a, k))
             full == QMul(R(2), RAbs(a[j]))
             take == IF QLe(full, D) THEN full ELSE D
         IN  QAdd(QMul(Ratio(c, a, j), take), Repair(J \ {j}, QAdd(D, RNeg(take)), c, a))

\* the minimum of c.x over the x of [-1,1]^m with a.x + alpha >= 0 for every
\* <<a, alpha>> of rows (rows holds at most one pair), in exact arithmetic;
\* PosInf when no x is feasible
LinearMinimum(c, rows) ==
    IF rows = {} THEN RNeg(QSum([j \in 1..Len(c) |-> RAbs(c[j])]))
    ELSE LET ca    == CHOOSE r \in rows : TRUE
             a     == ca[1]
             x0    == [j \in 1..Len(c) |->
                        IF c[j][1] > 0 THEN R(-1) ELSE IF c[j][1] < 0 THEN R(1)
                        ELSE R(ISgn(a[j][1]))]
             slack == QAdd(QDot(a, x0), ca[2])
             J     == {j \in 1..Len(c) : c[j][1] # 0 /\ ISgn(a[j][1]) = ISgn(c[j][1])}
         IN  QAdd(RNeg(QSum([j \in 1..Len(c) |-> RAbs(c[j])])), Repair(J, RNeg(slack), c, a))

\* scipy.optimize.minimize on a linear objective: the minimum of the linear
\* program when the program and its minimum are doubles held exactly, and a
\* double the model does not hold otherwise
MinimizeLinear(c, rows) ==
    IF LPHeld(c, rows) /\ IsDouble(LinearMinimum(c, rows)) THEN LinearMinimum(c, rows)
    ELSE Inexact

\* res_1.fun and -res_2.fun for row i when both solver calls succeed
SolvedLower(cz, i) == RAdd(MinimizeLinear(cz.W[i], HandedRows(cz)), cz.b[i])

SolvedUpper(cz, i) == RSub(cz.b[i], MinimizeLinear(VecNeg(cz.W[i]), HandedRows(cz)))

\* whether the feasible set handed to the solver has a point: open when a
\* handed row has a number the model does not hold exactly
Feasibility(cz) ==
    IF ~LPHeld(<<>>, HandedRows(cz)) THEN BOOLEAN
    ELSE {IsFinite(LinearMinimum(Zeros(Cols(cz.W)), HandedRows(cz)))}

\* res_1.success and res_2.success for row i; feasible is the outcome of
\* Feasibility, fails holds the calls <<i, "lower">>, <<i, "upper">> in which
\* the solver gives up on a feasible problem
Success(feasible, fails, i, side) == feasible /\ <<i, side>> \notin fails

\* bounds: lines 93-96
FinalConcretize(cz, feasible, fails) ==
    [i \in 1..Len(cz.W) |->
        <<IF Success(feasible, fails, i, "lower") THEN SolvedLower(cz, i) ELSE NegInf,
          IF Success(feasible, fails, i, "upper") THEN SolvedUpper(cz, i) ELSE PosInf>>]

\* ------------------------------------------------------------------------
\* Inputs of the model
\* ------------------------------------------------------------------------

\* how many times quantize is called on one network
MaxQuantize == 1

\* every activation transformer appends noise symbols, so the generator grows
\* with the depth of the network: a propagation is followed while the
\* generator has at most MaxSymbols columns
MaxSymbols == 6

\* every number of the abstract value is a double the model holds exactly, so
\* that exact arithmetic on the pairs is arithmetic on the doubles
Held(z) ==
    /\ \A r \in 1..Len(z.W) : \A j \in 1..Len(z.W[r]) : IsDouble(z.W[r][j])
    /\ \A r \in 1..Len(z.b) : IsDouble(z.b[r])
    /\ "constraints" \in DOMAIN z =>
          \A k \in 1..Len(z.constraints) :
              /\ IsDouble(z.constraints[k][2])
              /\ \A j \in 1..Len(z.constraints[k][1]) : IsDouble(z.constraints[k][1][j])

\* the draws of the random generator that are followed are the multiples of
\* 2^-GridN in [0, 1), so that the sampled points of a box of doubles are
\* doubles the model holds
GridN == 2

IntVec(v) == [j \in 1..Len(v) |-> R(v[j])]

IntMat(M) == [i \in 1..Len(M) |-> IntVec(M[i])]

Half == RHalf(R(1))

\* the layer lists Network(...) is called with
NetRelu == <<LayerInit(IntMat(<< <<1>> >>), IntVec(<<0>>), "relu", None, None)>>

\* one layer whose weight and bias are not integers
NetHalf == <<LayerInit(<< <<RDiv(R(3), R(2))>> >>, <<RNeg(Half)>>, "relu", None, None)>>

NetIdentity == <<LayerInit(IntMat(<< <<1>> >>), IntVec(<<0>>), "identity", None, None)>>

NetReluId ==
    <<LayerInit(IntMat(<< <<1>> >>), IntVec(<<0>>), "relu", None, None),
      LayerInit(IntMat(<< <<1>> >>), IntVec(<<0>>), "identity", None, None)>>

NetFork ==
    <<LayerInit(IntMat(<< <<1>>, <<1>> >>), IntVec(<<0, 0>>), "relu", None, None),
      LayerInit(IntMat(<< <<1, -1>> >>), IntVec(<<0>>), "identity", None, None)>>

NetFrac ==
    <<LayerInit(<< <<RDiv(R(3), R(2))>> >>, <<RNeg(Half)>>, "relu", None, None),
      LayerInit(IntMat(<< <<-1>> >>), <<Half>>, "identity", None, None)>>

NetDeep ==
    <<LayerInit(IntMat(<< <<1>> >>), IntVec(<<-1>>), "relu", None, None),
      LayerInit(IntMat(<< <<-1>> >>), IntVec(<<1>>), "relu", None, None),
      LayerInit(IntMat(<< <<2>> >>), IntVec(<<0>>), "identity", None, None)>>

\* two relu layers, each with an unstable row on the box [-1,1]
NetTwice ==
    <<LayerInit(IntMat(<< <<1>> >>), IntVec(<<0>>), "relu", None, None),
      LayerInit(IntMat(<< <<1>> >>), <<RNeg(RDiv(R(1), R(4)))>>, "relu", None, None)>>

NetPlane ==
    <<LayerInit(IntMat(<< <<1, 1>>, <<1, -1>> >>), IntVec(<<0, 0>>), "relu", None, None),
      LayerInit(IntMat(<< <<1, 1>> >>), IntVec(<<0>>), "identity", None, None)>>

NetMismatch ==
    <<LayerInit(IntMat(<< <<1>>, <<1>> >>), IntVec(<<0, 0>>), "relu", None, None),
      LayerInit(IntMat(<< <<1>> >>), IntVec(<<0>>), "identity", None, None)>>

\* the network of the worked example: hidden layer 2x2 relu, output layer 1x2
NetScenario ==
    <<LayerInit(<< <<RDiv(R(398), R(100)), RDiv(R(536), R(100))>>,
                   <<RDiv(R(402), R(100)), RDiv(R(224), R(100))>> >>,
                <<RDiv(R(672), R(100)), RDiv(R(-706), R(100))>>, "relu", None, None),
      LayerInit(<< <<RDiv(R(26), R(100)), RDiv(R(104), R(100))>> >>,
                <<RDiv(R(-292), R(100))>>, "identity", None, None)>>

\* the input box of the worked example
ScenarioBox == << <<Half, RDiv(R(3), R(2))>>, <<RDiv(R(3), R(2)), RDiv(R(5), R(2))>> >>

LayerLists ==
    {NetRelu, NetHalf, NetIdentity, NetReluId, NetFork, NetFrac, NetDeep, NetTwice, NetPlane,
     NetMismatch,
     NetScenario}

\* quantization configurations
CfgUnit ==
    [Fw |-> 0, Fb |-> 0, Fin |-> 0, Fh |-> 0,
     Clb_in |-> R(-8), Cub_in |-> R(8), Clb_w |-> R(-8), Cub_w |-> R(8),
     Clb_b |-> R(-8), Cub_b |-> R(8), Cub_h |-> R(4)]

CfgFrac == [CfgUnit EXCEPT !.Fw = 1, !.Fb = 1, !.Fin = 1, !.Fh = 1]

CfgZeroLb == [CfgUnit EXCEPT !.Clb_in = Zero]

CfgInf == [CfgUnit EXCEPT !.Cub_w = PosInf]

Without(c, key) == [k \in DOMAIN c \ {key} |-> c[k]]

Configurations ==
    {CfgUnit, CfgFrac, CfgZeroLb, CfgInf, Without(CfgUnit, "Cub_h"), Without(CfgFrac, "Fw")}

Versions == {1, 2}

Variants == {"standard", "rectangle"}

\* input boxes: one interval of Intervals per input dimension
Intervals == {<<R(-1), R(1)>>, <<R(4), R(5)>>, <<R(1), R(3)>>, <<R(-3), R(4)>>}

RECURSIVE Boxes(_)
Boxes(n) ==
    IF n = 0 THEN {<<>>}
    ELSE {<<iv>> \o rest : iv \in Intervals, rest \in Boxes(n - 1)}

\* the boxes the propagations are called with: the worked example runs on
\* its own box, every other network on the boxes of its input dimension
BoxesFor(ls) == IF ls = NetScenario THEN {ScenarioBox} ELSE Boxes(InDim(ls[1]))

\* the values np.random.uniform draws from [0, 1) that are followed
Draws == {Norm(k, IPow2(GridN)) : k \in 0..(IPow2(GridN) - 1)}

RECURSIVE DrawVectors(_)
DrawVectors(d) ==
    IF d = 0 THEN {<<>>}
    ELSE {<<u>> \o rest : u \in Draws, rest \in DrawVectors(d - 1)}

\* sample_vectors_from_box(box, n) when the generator draws the n vectors
\* `draws`: np.random.uniform gives low + (high - low) * u in each dimension
sample_vectors_from_box(box, draws) ==
    [k \in 1..Len(draws) |->
        [j \in 1..Len(box) |->
            RAdd(box[j][1], RMul(RSub(box[j][2], box[j][1]), draws[k][j]))]]

\* the vectors sample_vectors_from_box returns for the draws followed
Grid(box) == {sample_vectors_from_box(box, <<u>>)[1] : u \in DrawVectors(Len(box))}

\* the points of a box the properties are checked at: its corners and the
\* sampled vectors, the batch propagate_vertices_random stacks
BoxPoints(box) ==
    {abstract_to_vertices(box)[k] : k \in 1..Len(abstract_to_vertices(box))} \cup Grid(box)

\* the solver calls that may fail on a feasible problem: none, or one call
SolverFailures(d) ==
    {{}} \cup {{<<i, side>>} : i \in 1..d, side \in {"lower", "upper"}}

\* ------------------------------------------------------------------------
\* State
\* ------------------------------------------------------------------------

\* no box returned yet
NoBox == [flat |-> FALSE, rows |-> <<>>]

\* an abstract value that has not been built yet
NoValue == [W |-> <<>>, b |-> <<>>, bcol |-> FALSE, constraints |-> <<>>]

VARIABLES
    pc,          \* position of the driver (plots.py, lines 34-42)
    layers,      \* Network.layers of the one Network object
    quantized,   \* Network.quantized
    nquant,      \* calls of quantize so far
    call,        \* the last call made: its name and arguments
    err,         \* the exception the last call raised, or "none"
    ret,         \* what the last call returned: "self", "new" or "none"
    box,         \* the input box of the propagations
    i,           \* index of the layer loop (1-based)
    zonotope,    \* the Zonotope object of propagate_zonotope
    out_box,     \* what propagate_zonotope returned
    version,     \* the variant passed to propagate_constrained_zonotope
    czonotope,   \* the ConstrainedZonotope object
    success,     \* res_1.success, res_2.success of every row in final_concretize
    out_cbox     \* what propagate_constrained_zonotope returned

vars ==
    <<pc, layers, quantized, nquant, call, err, ret, box, i, zonotope, out_box,
      version, czonotope, success, out_cbox>>

netVars == <<layers, quantized, nquant>>

zVars == <<zonotope, out_box>>

czVars == <<version, czonotope, success, out_cbox>>

Init ==
    /\ pc = "new"
    /\ layers = <<>>
    /\ quantized = FALSE
    /\ nquant = 0
    /\ call = [op |-> "none"]
    /\ err = "none"
    /\ ret = "none"
    /\ box = <<>>
    /\ i = 0
    /\ zonotope = NoValue
    /\ out_box = NoBox
    /\ version = "none"
    /\ czonotope = NoValue
    /\ success = <<>>
    /\ out_cbox = <<>>

\* Network.__init__
NetworkInit(ls) ==
    /\ pc = "new"
    /\ call' = [op |-> "Network", layers |-> ls]
    /\ IF NetworkInitRaises(ls)
       THEN /\ pc' = "failed"
            /\ err' = "ValueError"
            /\ ret' = "none"
            /\ UNCHANGED <<layers, quantized>>
       ELSE /\ pc' = "ready"
            /\ err' = "none"
            /\ ret' = "new"
            /\ layers' = ls
            /\ quantized' = FALSE
    /\ UNCHANGED <<nquant, box, i, zVars, czVars>>

\* Network.quantize
Quantize(configuration, v) ==
    /\ pc = "ready"
    /\ nquant < MaxQuantize
    /\ nquant' = nquant + 1
    /\ call' = [op |-> "quantize", configuration |-> configuration, version |-> v]
    /\ quantized' = TRUE
    /\ IF ConfigKeyError(configuration)
       THEN /\ err' = "KeyError"
            /\ ret' = "none"
            /\ layers' = layers
       ELSE /\ err' = "none"
            /\ ret' = "self"
            /\ layers' = QuantizedLayers(layers, configuration, v)
    /\ UNCHANGED <<pc, box, i, zVars, czVars>>

\* the layer loop has run over every layer
LoopDone == i > Len(layers)

\* Network.propagate_zonotope up to the layer loop
PropagateZonotopeBegin(b) ==
    /\ pc = "ready"
    /\ call' = [op |-> "propagate_zonotope"]
    /\ box' = b
    /\ IF quantized /\ ClampAttrMissing(layers[1])
       THEN /\ pc' = "raised"
            /\ err' = "AttributeError"
            /\ ret' = "none"
            /\ UNCHANGED <<i, zonotope>>
       ELSE /\ pc' = "z_loop"
            /\ err' = "none"
            /\ ret' = "new"
            /\ i' = IF quantized THEN 2 ELSE 1
            /\ zonotope' = abstract_to_zonotope(StartBox(layers, quantized, b))
    /\ UNCHANGED <<netVars, out_box, czVars>>

\* the driver calls propagate_zonotope on a box of the network's input dimension
PropagateZonotopeCall ==
    /\ pc = "ready"
    /\ \E b \in BoxesFor(layers) : PropagateZonotopeBegin(b)

\* Zonotope.linear_transformation, called by Layer.propagate_zonotope
ZLinear ==
    /\ pc = "z_loop"
    /\ ~LoopDone
    /\ ~(zonotope.bcol /\ OutDim(layers[i]) > 1)
    /\ call' = [op |-> "linear_transformation"]
    /\ zonotope' = ZLinearTransformation(zonotope, layers[i].weights, layers[i].biases)
    /\ err' = "none"
    /\ ret' = "self"
    /\ IF layers[i].activation \in {"relu", "clamp"}
       THEN pc' = "z_act" /\ i' = i
       ELSE pc' = "z_loop" /\ i' = i + 1
    /\ UNCHANGED <<netVars, box, out_box, czVars>>

\* Zonotope.abstract_ReLU
ZReLU ==
    /\ pc = "z_act"
    /\ layers[i].activation = "relu"
    /\ \E cases \in ReLUCases(zonotope) :
          /\ call' = [op |-> "abstract_ReLU", cases |-> cases]
          /\ zonotope' = ZAbstractReLU(zonotope, cases)
    /\ Cols(zonotope'.W) <= MaxSymbols
    /\ err' = "none"
    /\ ret' = "self"
    /\ pc' = "z_loop"
    /\ i' = i + 1
    /\ UNCHANGED <<netVars, box, out_box, czVars>>

\* Zonotope.abstract_floor
ZFloor ==
    /\ pc = "z_act"
    /\ layers[i].activation = "clamp"
    /\ call' = [op |-> "abstract_floor"]
    /\ zonotope' = ZAbstractFloor(zonotope)
    /\ Cols(zonotope'.W) <= MaxSymbols
    /\ err' = "none"
    /\ ret' = "self"
    /\ pc' = "z_clamp"
    /\ UNCHANGED <<netVars, box, i, out_box, czVars>>

\* Zonotope.abstract_clamp
ZClamp ==
    /\ pc = "z_clamp"
    /\ IF layers[i].upper_bound = None
       THEN /\ call' = [op |-> "abstract_clamp"]
            /\ pc' = "raised"
            /\ err' = "AttributeError"
            /\ ret' = "none"
            /\ UNCHANGED <<i, zonotope>>
       ELSE \E cases \in ClampCases(zonotope, layers[i].upper_bound) :
            /\ call' = [op |-> "abstract_clamp", cases |-> cases]
            /\ IF ZClampRaises(cases)
               THEN /\ pc' = "raised"
                    /\ err' = "UnboundLocalError"
                    /\ ret' = "none"
                    /\ UNCHANGED <<i, zonotope>>
               ELSE /\ pc' = "z_loop"
                    /\ err' = "none"
                    /\ ret' = "self"
                    /\ i' = i + 1
                    /\ zonotope' = ZAbstractClamp(zonotope, layers[i].upper_bound, cases)
                    /\ Cols(zonotope'.W) <= MaxSymbols
    /\ UNCHANGED <<netVars, box, out_box, czVars>>

\* Zonotope.concretize, and the return of propagate_zonotope
ZConcretize ==
    /\ pc = "z_loop"
    /\ LoopDone
    /\ call' = [op |-> "concretize"]
    /\ out_box' = Concretize(zonotope)
    /\ err' = "none"
    /\ ret' = "new"
    /\ pc' = "z_done"
    /\ UNCHANGED <<netVars, box, i, zonotope, czVars>>

\* Network.propagate_constrained_zonotope up to the layer loop, on the same box
PropagateConstrainedBegin(v) ==
    /\ pc = "z_done"
    /\ call' = [op |-> "propagate_constrained_zonotope"]
    /\ version' = v
    /\ pc' = "c_loop"
    /\ err' = "none"
    /\ ret' = "new"
    /\ i' = IF quantized THEN 2 ELSE 1
    /\ czonotope' = abstract_to_constrained_zonotope(StartBox(layers, quantized, box))
    /\ UNCHANGED <<netVars, box, zVars, success, out_cbox>>

\* ConstrainedZonotope.linear_transformation
CLinear ==
    /\ pc = "c_loop"
    /\ ~LoopDone
    /\ ~(czonotope.bcol /\ OutDim(layers[i]) > 1)
    /\ call' = [op |-> "linear_transformation"]
    /\ czonotope' = CZLinearTransformation(czonotope, layers[i].weights, layers[i].biases)
    /\ err' = "none"
    /\ ret' = "self"
    /\ IF layers[i].activation \in {"relu", "clamp"}
       THEN pc' = "c_act" /\ i' = i
       ELSE pc' = "c_loop" /\ i' = i + 1
    /\ UNCHANGED <<netVars, box, zVars, version, success, out_cbox>>

\* ConstrainedZonotope.abstract_ReLU
CReLU ==
    /\ pc = "c_act"
    /\ layers[i].activation = "relu"
    /\ \E cases \in ReLUCases(czonotope) :
          /\ call' = [op |-> "abstract_ReLU", cases |-> cases]
          /\ czonotope' = CZAbstractReLU(czonotope, version, cases)
    /\ Cols(czonotope'.W) <= MaxSymbols
    /\ err' = "none"
    /\ ret' = "self"
    /\ pc' = "c_loop"
    /\ i' = i + 1
    /\ UNCHANGED <<netVars, box, zVars, version, success, out_cbox>>

\* ConstrainedZonotope.abstract_floor
CFloor ==
    /\ pc = "c_act"
    /\ layers[i].activation = "clamp"
    /\ call' = [op |-> "abstract_floor"]
    /\ czonotope' = CZAbstractFloor(czonotope)
    /\ Cols(czonotope'.W) <= MaxSymbols
    /\ err' = "none"
    /\ ret' = "self"
    /\ pc' = "c_clamp"
    /\ UNCHANGED <<netVars, box, i, zVars, version, success, out_cbox>>

\* ConstrainedZonotope.abstract_clamp
CClamp ==
    /\ pc = "c_clamp"
    /\ \E cases \in ClampCases(czonotope, layers[i].upper_bound) :
          /\ call' = [op |-> "abstract_clamp", cases |-> cases]
          /\ IF CZClampRaises(cases)
             THEN /\ pc' = "raised"
                  /\ err' = CZClampError(cases)
                  /\ ret' = "none"
                  /\ i' = i
                  /\ czonotope' = CZClampRaised(czonotope, layers[i].upper_bound, version, cases)
             ELSE /\ pc' = "c_loop"
                  /\ err' = "none"
                  /\ ret' = "self"
                  /\ i' = i + 1
                  /\ czonotope' = CZAbstractClamp(czonotope, layers[i].upper_bound, version, cases)
                  /\ Cols(czonotope'.W) <= MaxSymbols
    /\ UNCHANGED <<netVars, box, zVars, version, success, out_cbox>>

\* ConstrainedZonotope.final_concretize, and the return of
\* propagate_constrained_zonotope
CFinalConcretize(fails) ==
    /\ pc = "c_loop"
    /\ LoopDone
    /\ call' = [op |-> "final_concretize"]
    /\ \E feasible \in Feasibility(czonotope) :
          /\ success' = [r \in 1..Len(czonotope.W) |->
                           <<Success(feasible, fails, r, "lower"),
                             Success(feasible, fails, r, "upper")>>]
          /\ out_cbox' = FinalConcretize(czonotope, feasible, fails)
    /\ err' = "none"
    /\ ret' = "new"
    /\ pc' = "c_done"
    /\ UNCHANGED <<netVars, box, i, zVars, version, czonotope>>

Next ==
    \/ \E ls \in LayerLists : NetworkInit(ls)
    \/ \E c \in Configurations, v \in Versions : Quantize(c, v)
    \/ PropagateZonotopeCall
    \/ ZLinear
    \/ ZReLU
    \/ ZFloor
    \/ ZClamp
    \/ ZConcretize
    \/ \E v \in Variants : PropagateConstrainedBegin(v)
    \/ CLinear
    \/ CReLU
    \/ CFloor
    \/ CClamp
    \/ \E fails \in SolverFailures(Len(czonotope.W)) : CFinalConcretize(fails)

Spec == Init /\ [][Next]_vars

\* ------------------------------------------------------------------------
\* The transformers called one at a time: a box is lifted, one layer's linear
\* map is applied, then one activation transformer, then concretize
\* ------------------------------------------------------------------------

\* intervals of the boxes that are lifted
UnitIntervals ==
    {<<R(-5), R(10)>>, <<Zero, Zero>>, <<R(-1), Zero>>, <<R(-1), R(1)>>,
     <<R(3), R(5)>>, <<R(1), R(3)>>}

RECURSIVE UnitBoxes(_)
UnitBoxes(n) ==
    IF n = 0 THEN {<<>>}
    ELSE {<<iv>> \o rest : iv \in UnitIntervals, rest \in UnitBoxes(n - 1)}

\* the layers whose linear map is applied (the last has a nan bias: no test
\* of abstract_clamp holds for its second row)
UnitLayers ==
    {LayerInit(IntMat(<< <<1>> >>), IntVec(<<0>>), "identity", None, None),
     LayerInit(IntMat(<< <<-2>> >>), IntVec(<<1>>), "identity", None, None),
     LayerInit(IntMat(<< <<1, -1>> >>), IntVec(<<0>>), "identity", None, None),
     LayerInit(IntMat(<< <<1, -1>>, <<2, 1>> >>), IntVec(<<0, 1>>), "identity", None, None),
     LayerInit(IntMat(<< <<1>>, <<1>> >>), <<Zero, NaN>>, "identity", None, None)}

\* the upper saturations abstract_clamp is called with (nan: no test of the
\* loop holds for a row with u > 0)
UnitUppers == {Zero, R(1), R(4), NaN}

UnitInit ==
    /\ pc = "u_new"
    /\ layers = <<>>
    /\ quantized = FALSE
    /\ nquant = 0
    /\ call = [op |-> "none"]
    /\ err = "none"
    /\ ret = "none"
    /\ box = <<>>
    /\ i = 0
    /\ zonotope = NoValue
    /\ out_box = NoBox
    /\ version = "none"
    /\ czonotope = NoValue
    /\ success = <<>>
    /\ out_cbox = <<>>

\* abstract_to_zonotope(box)
UnitLift(b) ==
    /\ pc = "u_new"
    /\ box' = b
    /\ call' = [op |-> "abstract_to_zonotope"]
    /\ zonotope' = abstract_to_zonotope(b)
    /\ ret' = "new"
    /\ pc' = "u_lifted"
    /\ UNCHANGED <<netVars, err, i, out_box, czVars>>

\* Layer.propagate_zonotope up to the activation: linear_transformation
UnitLinear(layer) ==
    /\ pc = "u_lifted"
    /\ InDim(layer) = Len(box)
    /\ layers' = <<layer>>
    /\ call' = [op |-> "linear_transformation", before |-> zonotope]
    /\ zonotope' = ZLinearTransformation(zonotope, layer.weights, layer.biases)
    /\ ret' = "self"
    /\ pc' = "u_linear"
    /\ UNCHANGED <<quantized, nquant, err, box, i, out_box, czVars>>

\* Zonotope.abstract_ReLU; `cases` is the branch taken for every row
UnitReLU ==
    /\ pc = "u_linear"
    /\ \E cases \in ReLUCases(zonotope) :
          /\ call' = [op |-> "abstract_ReLU", before |-> zonotope, cases |-> cases,
                      zerodiv |-> \E r \in 1..Len(zonotope.W) :
                                    ReLUDividesByZero(LowerBounds(zonotope)[r],
                                                      UpperBounds(zonotope)[r])]
          /\ zonotope' = ZAbstractReLU(zonotope, cases)
    /\ ret' = "self"
    /\ pc' = "u_act"
    /\ UNCHANGED <<netVars, err, box, i, out_box, czVars>>

\* Zonotope.abstract_clamp(C_ub)
UnitClamp(C_ub) ==
    /\ pc = "u_linear"
    /\ \E cases \in ClampCases(zonotope, C_ub) :
          /\ call' = [op |-> "abstract_clamp", before |-> zonotope, C_ub |-> C_ub,
                      cases |-> cases]
          /\ IF ZClampRaises(cases)
             THEN /\ pc' = "u_raised"
                  /\ err' = "UnboundLocalError"
                  /\ ret' = "none"
                  /\ zonotope' = zonotope
             ELSE /\ pc' = "u_act"
                  /\ err' = "none"
                  /\ ret' = "self"
                  /\ zonotope' = ZAbstractClamp(zonotope, C_ub, cases)
    /\ UNCHANGED <<netVars, box, i, out_box, czVars>>

\* Zonotope.concretize; `at` is what the zonotope had gone through
UnitConcretize ==
    /\ pc \in {"u_lifted", "u_linear", "u_act"}
    /\ call' = [op |-> "concretize", at |-> pc]
    /\ out_box' = Concretize(zonotope)
    /\ ret' = "new"
    /\ pc' = "u_done"
    /\ UNCHANGED <<netVars, err, box, i, zonotope, czVars>>

\* abstract_to_constrained_zonotope(box)
UnitCLift(b) ==
    /\ pc = "u_new"
    /\ box' = b
    /\ call' = [op |-> "abstract_to_constrained_zonotope"]
    /\ czonotope' = abstract_to_constrained_zonotope(b)
    /\ ret' = "new"
    /\ pc' = "uc_lifted"
    /\ UNCHANGED <<netVars, err, i, zVars, version, success, out_cbox>>

\* Layer.propagate_constrained_zonotope up to the activation
UnitCLinear(layer) ==
    /\ pc = "uc_lifted"
    /\ InDim(layer) = Len(box)
    /\ layers' = <<layer>>
    /\ call' = [op |-> "linear_transformation", before |-> czonotope]
    /\ czonotope' = CZLinearTransformation(czonotope, layer.weights, layer.biases)
    /\ ret' = "self"
    /\ pc' = "uc_linear"
    /\ UNCHANGED <<quantized, nquant, err, box, i, zVars, version, success, out_cbox>>

\* ConstrainedZonotope.abstract_ReLU(version)
UnitCReLU(v) ==
    /\ pc = "uc_linear"
    /\ version' = v
    /\ \E cases \in ReLUCases(czonotope) :
          /\ call' = [op |-> "abstract_ReLU", before |-> czonotope, cases |-> cases,
                      zerodiv |-> \E r \in 1..Len(czonotope.W) :
                                    ReLUDividesByZero(LowerBounds(czonotope)[r],
                                                      UpperBounds(czonotope)[r])]
          /\ czonotope' = CZAbstractReLU(czonotope, v, cases)
    /\ ret' = "self"
    /\ pc' = "uc_act"
    /\ UNCHANGED <<netVars, err, box, i, zVars, success, out_cbox>>

\* ConstrainedZonotope.abstract_clamp(C_ub, version)
UnitCClamp(C_ub, v) ==
    /\ pc = "uc_linear"
    /\ version' = v
    /\ \E cases \in ClampCases(czonotope, C_ub) :
          /\ call' = [op |-> "abstract_clamp", before |-> czonotope, C_ub |-> C_ub,
                      cases |-> cases]
          /\ IF CZClampRaises(cases)
             THEN /\ pc' = "u_raised"
                  /\ err' = CZClampError(cases)
                  /\ ret' = "none"
                  /\ czonotope' = CZClampRaised(czonotope, C_ub, v, cases)
             ELSE /\ pc' = "uc_act"
                  /\ err' = "none"
                  /\ ret' = "self"
                  /\ czonotope' = CZAbstractClamp(czonotope, C_ub, v, cases)
    /\ UNCHANGED <<netVars, box, i, zVars, success, out_cbox>>

\* linear_interval_propagation: W @ l + b and W @ u + b, row by row
linear_interval_propagation(intervals, W, b) ==
    LET l == [j \in 1..Len(intervals) |-> intervals[j][1]]
        u == [j \in 1..Len(intervals) |-> intervals[j][2]]
    IN  [r \in 1..Len(W) |-> <<RAdd(Dot(W[r], l), b[r]), RAdd(Dot(W[r], u), b[r])>>]

\* relu_interval_propagation: np.maximum(l, 0), np.maximum(u, 0)
relu_interval_propagation(intervals) ==
    [r \in 1..Len(intervals) |-> <<RMax(intervals[r][1], Zero), RMax(intervals[r][2], Zero)>>]

\* clamp_interval_propagation: np.maximum(l, lower_bound), np.minimum(u, upper_bound)
clamp_interval_propagation(intervals, lower_bound, upper_bound) ==
    [r \in 1..Len(intervals) |->
        <<RMax(intervals[r][1], lower_bound), RMin(intervals[r][2], upper_bound)>>]

\* Layer.propagate_box
LayerPropagateBox(layer, b) ==
    LET lin == linear_interval_propagation(b, layer.weights, layer.biases)
    IN  IF layer.activation = "relu" THEN relu_interval_propagation(lin)
        ELSE IF layer.activation = "clamp"
             THEN clamp_interval_propagation(
                      [r \in 1..Len(lin) |-> <<RFloor(lin[r][1]), RFloor(lin[r][2])>>],
                      layer.lower_bound, layer.upper_bound)
        ELSE lin

\* the layers propagate_box is called on: the linear maps of UnitLayers under
\* each activation tag
UnitTaggedLayers ==
    UnitLayers
    \cup {LayerInit(l.weights, l.biases, "relu", None, None) : l \in UnitLayers}
    \cup {LayerInit(l.weights, l.biases, "clamp", R(-1), R(4)) : l \in UnitLayers}

\* Layer.propagate_box(box) on a fresh box
UnitPropagateBox(b, layer) ==
    /\ pc = "u_new"
    /\ InDim(layer) = Len(b)
    /\ box' = b
    /\ layers' = <<layer>>
    /\ call' = [op |-> "propagate_box"]
    /\ out_box' = [flat |-> FALSE, rows |-> LayerPropagateBox(layer, b)]
    /\ ret' = "new"
    /\ pc' = "u_boxed"
    /\ UNCHANGED <<quantized, nquant, err, i, zonotope, czVars>>

UnitNext ==
    \/ \E n \in 1..2 : \E b \in UnitBoxes(n) : UnitLift(b)
    \/ \E layer \in UnitLayers : UnitLinear(layer)
    \/ UnitReLU
    \/ \E C_ub \in UnitUppers : UnitClamp(C_ub)
    \/ UnitConcretize
    \/ \E n \in 1..2 : \E b \in UnitBoxes(n) : UnitCLift(b)
    \/ \E layer \in UnitLayers : UnitCLinear(layer)
    \/ \E v \in Variants : UnitCReLU(v)
    \/ \E C_ub \in UnitUppers : \E v \in Variants : UnitCClamp(C_ub, v)
    \/ \E n \in 1..2 : \E b \in UnitBoxes(n) : \E layer \in UnitTaggedLayers : UnitPropagateBox(b, layer)

UnitSpec == UnitInit /\ [][UnitNext]_vars

\* ------------------------------------------------------------------------
\* Claims
\* ------------------------------------------------------------------------

\* Network.propagate raises AttributeError: a clamp layer lacks a bound
PropagateRaises(ls) == \E k \in 1..Len(ls) : ClampAttrMissing(ls[k])

\* y is not outside the interval iv, as far as the model holds the numbers
InInterval(y, iv) == MayLe(iv[1], y) /\ MayLe(y, iv[2])

\* the corners of [-1,1]^m, and its center: the points at which feasible sets
\* are compared
RECURSIVE Corners(_)
Corners(m) ==
    IF m = 0 THEN {<<>>}
    ELSE {<<R(s)>> \o rest : s \in {-1, 1}, rest \in Corners(m - 1)}

TestPoints(m) == Corners(m) \cup {Zeros(m)}

\* upper - lower of a returned interval (an infinite bound gives an infinite width)
Width(iv) ==
    IF ~Known(iv[1]) \/ ~Known(iv[2]) THEN Inexact
    ELSE IF IsFinite(iv[1]) /\ IsFinite(iv[2]) THEN RSub(iv[2], iv[1])
    ELSE PosInf

\* every solver call of final_concretize reported success
AllSucceeded == \A r \in 1..Len(success) : success[r][1] /\ success[r][2]

\* C1: once propagate_zonotope has returned, every coordinate of
\* Network.propagate(x), for every checked point x of the input box, lies in
\* the interval returned for that coordinate.
C1_ZonotopeSound ==
    (pc = "z_done" /\ ~PropagateRaises(layers)) =>
        \A x \in BoxPoints(box) : \A r \in 1..Len(out_box.rows) :
            InInterval(NetworkPropagate(layers, x)[r], out_box.rows[r])

\* C2: once propagate_constrained_zonotope has returned, with either variant,
\* every coordinate of Network.propagate(x), for every checked point x of the
\* input box, lies in the interval returned for that coordinate.
C2_ConstrainedSound ==
    (pc = "c_done" /\ ~PropagateRaises(layers)) =>
        \A x \in BoxPoints(box) : \A r \in 1..Len(out_cbox) :
            InInterval(NetworkPropagate(layers, x)[r], out_cbox[r])

\* C3: for the same network and box, in every output dimension the interval of
\* propagate_constrained_zonotope is no wider than that of propagate_zonotope
\* (stated for the runs in which every solver call succeeded).
C3_Tightness ==
    (pc = "c_done" /\ AllSucceeded) =>
        \A r \in 1..Len(out_cbox) :
            r <= Len(out_box.rows) => MayLe(Width(out_cbox[r]), Width(out_box.rows[r]))

\* C4: a solver call that reports failure does not make final_concretize
\* return -infinity as the lower or +infinity as the upper bound of its row.
C4_FailureNotInfinity ==
    pc = "c_done" =>
        \A r \in 1..Len(out_cbox) :
            /\ ~success[r][1] => out_cbox[r][1] # NegInf
            /\ ~success[r][2] => out_cbox[r][2] # PosInf

\* the stored constraint number k holds at x, read as row.x + bound >= 0
StoredHolds(cz, k, x) ==
    RGe(RAdd(Dot(PadRight(cz.constraints[k][1], Len(x)), x), cz.constraints[k][2]), Zero)

\* C5: every one of the K stored constraints restricts the feasible set that
\* final_concretize hands to the solver: a point the solver may use satisfies
\* each stored constraint, not only the last one.  Stated where the numbers
\* of the constrained zonotope are held exactly.
C5_AllConstraintsEnforced ==
    (pc = "c_done" /\ Held(czonotope)) =>
        \A x \in TestPoints(Cols(czonotope.W)) :
            HandedFeasible(czonotope, x) =>
                \A k \in 1..Len(czonotope.constraints) : StoredHolds(czonotope, k, x)

\* C6: every stored constraint (row a, bound c), a zero-padded on the right
\* to the generator width m, is enforced by final_concretize: every point of
\* the set handed to the solver satisfies it, as a.eps <= c (the reading of
\* the specification) or as a.eps + c >= 0 (the reading of the 'ineq'
\* functions of line 75).  Stated where the numbers of the constrained
\* zonotope are held exactly.
C6_EveryStoredEnforced ==
    (pc = "c_done" /\ Held(czonotope)) =>
        \A k \in 1..Len(czonotope.constraints) :
            LET a == PadRight(czonotope.constraints[k][1], Cols(czonotope.W))
                c == czonotope.constraints[k][2]
                F == {x \in TestPoints(Cols(czonotope.W)) : HandedFeasible(czonotope, x)}
            IN  \/ \A x \in F : RLe(Dot(a, x), c)
                \/ \A x \in F : RGe(RAdd(Dot(a, x), c), Zero)

\* C7: a quantize call that returns gives back a Network other than its
\* receiver and leaves the receiver's layers and quantized flag as they were.
C7_QuantizeDoesNotAlias ==
    [][(nquant' = nquant + 1 /\ err' = "none") =>
          (ret' = "new" /\ layers' = layers /\ quantized' = quantized)]_vars

\* a saturation bound of the configuration is not finite
NonFiniteBound(c) ==
    \E key \in {"Clb_in", "Cub_in", "Clb_w", "Cub_w", "Clb_b", "Cub_b", "Cub_h"} :
        key \in DOMAIN c /\ ~IsFinite(c[key])

\* C8: quantize called with a configuration that lacks a key or holds a
\* non-finite saturation bound raises an error and leaves the layers and the
\* quantized flag of the network unchanged.
C8_BadConfigRejected ==
    [][(nquant' = nquant + 1 /\
        (ConfigKeyError(call'.configuration) \/ NonFiniteBound(call'.configuration))) =>
          (err' # "none" /\ layers' = layers /\ quantized' = quantized)]_vars

\* the calls that are abstract transformers
TransformerOps == {"linear_transformation", "abstract_ReLU", "abstract_clamp", "abstract_floor"}

\* C9: a transformer that returns gives back a new abstract value and leaves
\* the generator, the center and the constraints of its receiver unchanged.
C9_TransformersPure ==
    [][(call'.op \in TransformerOps /\ err' = "none" /\ vars' # vars) =>
          (ret' = "new" /\ zonotope' = zonotope /\ czonotope' = czonotope)]_vars

\* C10: Network(...) raises when two adjacent layers disagree, and in every
\* network built by a successful construction and any number of quantize
\* calls, out_dim(layer[k]) = in_dim(layer[k+1]) for every adjacent pair.
C10_AdjacentShapes ==
    /\ \A k \in 1..(Len(layers) - 1) :
           Len(layers[k].weights) = Len(layers[k + 1].weights[1])
    /\ call.op = "Network" =>
          ((\E k \in 1..(Len(call.layers) - 1) :
                Len(call.layers[k].weights) # Len(call.layers[k + 1].weights[1]))
           => (err = "ValueError" /\ pc = "failed" /\ layers = <<>>))

\* C10 witness: a network with a two-dimensional input has been quantized, so
\* its first layer is the prepended input-quantization layer.
C10_Witness ==
    /\ pc = "ready"
    /\ nquant >= 1
    /\ err = "none"
    /\ Len(layers) = 3
    /\ InDim(layers[1]) = 2
    /\ layers[1].activation = "clamp"

\* the positions of one constrained-zonotope propagation
CPhase == {"c_loop", "c_act", "c_clamp", "c_done"}

\* C11: during one constrained-zonotope propagation no step lowers the
\* generator width m or the constraint count K, and every constraint already
\* stored keeps its position, its row and its bound.
C11_AppendOnly ==
    [][(pc \in CPhase /\ pc' \in CPhase) =>
          /\ Cols(czonotope'.W) >= Cols(czonotope.W)
          /\ Len(czonotope'.constraints) >= Len(czonotope.constraints)
          /\ \A k \in 1..Len(czonotope.constraints) :
                 czonotope'.constraints[k] = czonotope.constraints[k]]_vars

\* C11 witness: a propagation in which a transformer appended constraints to
\* a store that already held some, the generator having grown since the first.
C11_Witness ==
    /\ pc \in CPhase
    /\ call.op \in {"abstract_ReLU", "abstract_clamp"}
    /\ i >= 3
    /\ Len(czonotope.constraints) >= 4
    /\ Len(czonotope.constraints[1][1]) < Cols(czonotope.W)
    /\ Len(czonotope.constraints[1][1])
           < Len(czonotope.constraints[Len(czonotope.constraints)][1])

\* C12: between two transformer applications of a constrained-zonotope
\* propagation and when final_concretize runs, no stored row is wider than the
\* generator, so the padded matrix A has exactly m columns and the row-width
\* error of final_concretize does not occur.
C12_RowsFit ==
    pc \in CPhase =>
        /\ \A k \in 1..Len(czonotope.constraints) :
               Len(czonotope.constraints[k][1]) <= Cols(czonotope.W)
        /\ \A k \in 1..Len(czonotope.constraints) :
               Len(PaddedA(czonotope)[k]) = Cols(czonotope.W)
        /\ ~FinalConcretizeRaises(czonotope)

\* C12 witness: final_concretize ran on a store holding a row narrower than
\* the generator and a row exactly as wide as it.
C12_Witness ==
    /\ pc = "c_done"
    /\ \E k \in 1..Len(czonotope.constraints) :
           Len(czonotope.constraints[k][1]) < Cols(czonotope.W)
    /\ \E k \in 1..Len(czonotope.constraints) :
           Len(czonotope.constraints[k][1]) = Cols(czonotope.W)

\* C13: Zonotope.concretize returns one (lower, upper) pair for every row of
\* the zonotope, lower = b_i - sum_j |W_ij| and upper = b_i + sum_j |W_ij|, and
\* concretize of a zonotope just lifted from a box gives that box back.
C13_ConcretizePairs ==
    pc = "u_done" =>
        /\ Len(out_box.rows) = Len(zonotope.W)
        /\ \A r \in 1..Len(out_box.rows) :
               out_box.rows[r] = <<RSub(zonotope.b[r], SumAbs(zonotope.W[r])),
                                   RAdd(zonotope.b[r], SumAbs(zonotope.W[r]))>>
        /\ call.at = "u_lifted" => out_box.rows = box

\* the value returned by abstract_ReLU, of either domain
ReLUAfter == IF pc = "u_act" THEN zonotope ELSE czonotope

\* C14 as the specification states it: with pre-activation bounds l = -5 and
\* u = 10 abstract_ReLU takes the unstable case with slope 2/3 and offset
\* c = 100/3: the row is scaled by 2/3, c/2 is the new noise coefficient and
\* c/2 is added to the scaled bias (zonotope, and constrained zonotope in its
\* standard variant).
C14_OffsetHundredThirds ==
    (pc \in {"u_act", "uc_act"} /\ call.op = "abstract_ReLU"
       /\ (pc = "uc_act" => version = "standard")
       /\ LowerBounds(call.before) = <<R(-5)>> /\ UpperBounds(call.before) = <<R(10)>>) =>
        /\ call.cases = <<"unstable">>
        /\ ReLUAfter.W[1] = VecScale(RDiv(R(2), R(3)), call.before.W[1])
                               \o <<RHalf(RDiv(R(100), R(3)))>>
        /\ ReLUAfter.b[1] = RAdd(RMul(RDiv(R(2), R(3)), call.before.b[1]),
                                RHalf(RDiv(R(100), R(3))))

\* C14 (amended): with pre-activation bounds l = -5 and u = 10 abstract_ReLU
\* takes the unstable case with slope 2/3 and offset c = 10/3: the row is
\* scaled by 2/3, c/2 = 5/3 is the new noise coefficient and is added to the
\* scaled bias (zonotope, and constrained zonotope in its standard variant).
C14_OffsetTenThirds ==
    (pc \in {"u_act", "uc_act"} /\ call.op = "abstract_ReLU"
       /\ (pc = "uc_act" => version = "standard")
       /\ LowerBounds(call.before) = <<R(-5)>> /\ UpperBounds(call.before) = <<R(10)>>) =>
        /\ call.cases = <<"unstable">>
        /\ ReLUAfter.W[1] = VecScale(RDiv(R(2), R(3)), call.before.W[1])
                               \o <<RHalf(RDiv(R(10), R(3)))>>
        /\ ReLUAfter.b[1] = RAdd(RMul(RDiv(R(2), R(3)), call.before.b[1]),
                                RHalf(RDiv(R(10), R(3))))

\* C14 witness: abstract_ReLU has been applied to a one-row zonotope whose
\* bounds are -5 and 10.
C14_Witness ==
    /\ pc = "u_act"
    /\ call.op = "abstract_ReLU"
    /\ LowerBounds(call.before) = <<R(-5)>>
    /\ UpperBounds(call.before) = <<R(10)>>
    /\ zonotope.W[1][Len(zonotope.W[1])] = RDiv(R(5), R(3))

\* C15: abstract_ReLU, of both domains, takes for every row exactly the branch
\* its bounds l <= u select: the zero branch when u <= 0 (l = u = 0 included),
\* the identity branch when u > 0 and l >= 0, the unstable branch when
\* l < 0 < u, and it divides by u - l only in the unstable branch, where the
\* divisor is not zero.
C15_BranchSelection ==
    (pc \in {"u_act", "uc_act"} /\ call.op = "abstract_ReLU") =>
        /\ ~call.zerodiv
        /\ \A r \in 1..Len(call.before.W) :
              LET l == LowerBounds(call.before)[r]
                  u == UpperBounds(call.before)[r]
                  m == Cols(call.before.W)
              IN  /\ RLe(u, Zero) =>
                        /\ call.cases[r] = "zero"
                        /\ ReLUAfter.b[r] = Zero
                        /\ \A j \in 1..Cols(ReLUAfter.W) : ReLUAfter.W[r][j] = Zero
                  /\ (RGt(u, Zero) /\ RGe(l, Zero)) =>
                        /\ call.cases[r] = "identity"
                        /\ ReLUAfter.b[r] = call.before.b[r]
                        /\ ReLUAfter.W[r] = PadRight(call.before.W[r], Cols(ReLUAfter.W))
                  /\ (RLt(l, Zero) /\ RGt(u, Zero)) =>
                        /\ call.cases[r] = "unstable"
                        /\ RSub(u, l) # Zero

\* C15 witness: abstract_ReLU has been applied to a row with l = u = 0.
C15_Witness ==
    /\ pc \in {"u_act", "uc_act"}
    /\ call.op = "abstract_ReLU"
    /\ \E r \in 1..Len(call.before.W) :
          /\ LowerBounds(call.before)[r] = Zero
          /\ UpperBounds(call.before)[r] = Zero
          /\ call.cases[r] = "zero"

\* the exact interval of row r of x -> W.x + b over the box
AffineImage(weights, biases, b, r) ==
    <<RAdd(biases[r], SumSeq([j \in 1..Len(b) |->
          RMin(RMul(weights[r][j], b[j][1]), RMul(weights[r][j], b[j][2]))])),
      RAdd(biases[r], SumSeq([j \in 1..Len(b) |->
          RMax(RMul(weights[r][j], b[j][1]), RMul(weights[r][j], b[j][2]))]))>>

\* C16: lifting a box, applying Layer.propagate_zonotope of an identity layer
\* and concretizing gives, for every output row, the exact interval image of
\* the box under x -> W.x + b, whatever the signs of the weights.
C16_IdentityExact ==
    (pc = "u_done" /\ call.at = "u_linear") =>
        /\ ~out_box.flat
        /\ Len(out_box.rows) = OutDim(layers[1])
        /\ \A r \in 1..Len(out_box.rows) :
               out_box.rows[r] = AffineImage(layers[1].weights, layers[1].biases, box, r)

\* C16 witness: the identity layer applied has two rows and a negative
\* weight, and the box is not a point.
C16_Witness ==
    /\ pc = "u_done"
    /\ call.at = "u_linear"
    /\ OutDim(layers[1]) = 2
    /\ \E r \in 1..2 : \E j \in 1..Len(layers[1].weights[r]) :
           RLt(layers[1].weights[r][j], Zero)
    /\ \A j \in 1..Len(box) : RLt(box[j][1], box[j][2])

\* C20: for every row abstract_clamp transforms and every checked x between
\* the row's bounds l and u, clamp(x, 0, hi) lies in [a.x, a.x + c] for the
\* (a, c) of the mixed branch taken, and equals 0, hi or x in the branches
\* fully below, fully above and fully inside.  Stated in exact arithmetic,
\* where the model holds a and c.
C20_ClampRelaxationSound ==
    (pc = "u_act" /\ call.op = "abstract_clamp") =>
        \A r \in 1..Len(call.before.W) :
            LET l  == LowerBounds(call.before)[r]
                u  == UpperBounds(call.before)[r]
                hi == call.C_ub
                cs == call.cases[r]
            IN  \A p \in BoxPoints(<< <<l, u>> >>) :
                    LET x == p[1]
                        y == clamp(x, Zero, hi)
                    IN  /\ cs = "below" => y = Zero
                        /\ cs = "above" => y = hi
                        /\ cs = "inside" => y = x
                        /\ (cs \in MixedCases /\ Known(ClampSlope(cs, l, u, hi))
                              /\ Known(ClampOffset(cs, l, u, hi))) =>
                              /\ QLe(QMul(ClampSlope(cs, l, u, hi), x), y)
                              /\ QLe(y, QAdd(QMul(ClampSlope(cs, l, u, hi), x),
                                             ClampOffset(cs, l, u, hi)))

\* C17: one successful quantize on a network of n layers leaves n+1 layers
\* and the quantized flag set, no relu tag, every former relu layer tagged
\* clamp with bounds 0 and Cub_h, every identity layer still tagged identity,
\* and at index 0 a layer of weights 2^Fin times the identity and zero bias.
C17_QuantizeStructure ==
    [][(nquant = 0 /\ nquant' = 1 /\ err' = "none") =>
          /\ Len(layers') = Len(layers) + 1
          /\ quantized'
          /\ \A k \in 1..Len(layers') : layers'[k].activation # "relu"
          /\ \A k \in 1..Len(layers) :
                /\ layers[k].activation = "relu" =>
                      /\ layers'[k + 1].activation = "clamp"
                      /\ layers'[k + 1].lower_bound = Zero
                      /\ layers'[k + 1].upper_bound = call'.configuration.Cub_h
                /\ layers[k].activation = "identity" =>
                      layers'[k + 1].activation = "identity"
          /\ LET n == Len(layers[1].weights[1])
             IN  /\ layers'[1].weights =
                        [r \in 1..n |-> [j \in 1..n |->
                            IF r = j THEN Pow2(call'.configuration.Fin) ELSE Zero]]
                 /\ layers'[1].biases = [r \in 1..n |-> Zero]]_vars

\* C17 witness: a network of two relu layers and an identity layer has been
\* quantized with Fin = 1.
C17_Witness ==
    /\ call.op = "quantize"
    /\ err = "none"
    /\ nquant = 1
    /\ call.configuration.Fin = 1
    /\ Len(layers) = 4
    /\ layers[2].activation = "clamp"
    /\ layers[3].activation = "clamp"
    /\ layers[4].activation = "identity"
    /\ layers[1].weights = << <<R(2)>> >>

\* the largest absolute value of the integers fed to the quantized identity network
XMax == 8

\* all four fractional-bit counts are 0 and the weight 1 and the bias 0 are
\* inside their saturation bounds
ZeroBitsWide(c) ==
    /\ ~ConfigKeyError(c)
    /\ c.Fw = 0 /\ c.Fb = 0 /\ c.Fin = 0 /\ c.Fh = 0
    /\ RLe(c.Clb_w, R(1)) /\ RLe(R(1), c.Cub_w)
    /\ RLe(c.Clb_b, Zero) /\ RLe(Zero, c.Cub_b)

\* C18: quantizing, under either version, the one-layer identity network of
\* weight 1 and bias 0 with all fractional-bit counts 0 and non-saturating
\* bounds leaves the rewritten layer with weight 1 and bias 0, and
\* Network.propagate then returns x for every integer x inside the input
\* saturation bounds.
C18_NearIdentity ==
    [][(layers = NetIdentity /\ nquant' = nquant + 1 /\ err' = "none"
          /\ ZeroBitsWide(call'.configuration)) =>
          /\ layers'[2].weights = << <<R(1)>> >>
          /\ layers'[2].biases = <<Zero>>
          /\ \A x \in (-XMax)..XMax :
                (RLe(call'.configuration.Clb_in, R(x)) /\ RLe(R(x), call'.configuration.Cub_in)) =>
                    /\ ~PropagateRaises(layers')
                    /\ NetworkPropagate(layers', <<R(x)>>) = <<R(x)>>]_vars

\* the interval inner lies inside the interval outer
Contained(inner, outer) == MayLe(outer[1], inner[1]) /\ MayLe(inner[2], outer[2])

\* the center of a box
Center(b) == [j \in 1..Len(b) |-> RHalf(RAdd(b[j][1], b[j][2]))]

\* C19: for the worked example (box [[0.5,1.5],[1.5,2.5]], hidden relu layer,
\* identity output layer) the interval of propagate_vertices lies inside the
\* interval of propagate_zonotope, which contains the exact output at the
\* center and at the 4 corners of the box; and for every network and box the
\* interval of propagate_vertices lies inside the interval of
\* propagate_zonotope, in every output dimension returned.
C19_VerticesInsideZonotope ==
    (pc = "z_done" /\ ~PropagateRaises(layers)) =>
        /\ \A r \in 1..Len(out_box.rows) :
               Contained(NetworkPropagateVertices(layers, box)[r], out_box.rows[r])
        /\ (layers = NetScenario /\ box = ScenarioBox) =>
               /\ Len(out_box.rows) = 1
               /\ InInterval(NetworkPropagate(layers, Center(box))[1], out_box.rows[1])
               /\ \A k \in 1..4 :
                      InInterval(NetworkPropagate(layers, abstract_to_vertices(box)[k])[1],
                                 out_box.rows[1])

\* the noise values s.sign(w_j): at them the row w takes the value
\* bias + s.sum|w_j|, which runs from l to u as s runs from -1 to 1
SignVec(w, s) == [j \in 1..Len(w) |-> RMul(s, R(ISgn(w[j][1])))]

\* 2^(GridN - 1) + 1 evenly spaced values of s in [-1, 1]
GridSteps == {RSub(RDiv(R(2 * k), R(IPow2(GridN - 1))), R(1)) : k \in 0..IPow2(GridN - 1)}

\* the value the noise symbol of column n must take for the row to have the
\* value y when the earlier symbols are e (2, outside [-1,1], when no value
\* of the symbol gives y)
NewSymbol(row, bias, n, e, y) ==
    LET rest == QAdd(QDot(SubSeq(row, 1, Len(e)), e), bias)
    IN  IF row[n] = Zero THEN (IF rest = y THEN Zero ELSE R(2))
        ELSE QDiv(QAdd(y, RNeg(rest)), row[n])

\* the noise vector of width w: e on the old symbols, t on symbol n, 0 elsewhere
NoiseAt(e, w, n, t) == [j \in 1..w |-> IF j <= Len(e) THEN e[j] ELSE IF j = n THEN t ELSE Zero]

\* the constraint <<row, bound>> holds at the noise vector eps: row.eps + bound >= 0
ConsHolds(con, eps) ==
    QLe(Zero, QAdd(QDot(con[1], SubSeq(eps, 1, Len(con[1]))), con[2]))

\* row r of the constrained zonotope returned by a transformer is valid for
\* the activation f at the old noise e: the new symbol can take a value in
\* [-1,1] that gives the row the value f(x), x the old value of the row, and
\* at that noise every constraint of cons holds
RowValidAt(f(_), r, e, cons) ==
    LET m  == Cols(call.before.W)
        n  == m + r
        x  == QAdd(QDot(call.before.W[r], e), call.before.b[r])
        y  == f(x)
        t  == NewSymbol(czonotope.W[r], czonotope.b[r], n, e, y)
        eps == NoiseAt(e, Cols(czonotope.W), n, t)
    IN  /\ RLe(R(-1), t) /\ RLe(t, R(1))
        /\ \A k \in 1..Len(cons) : ConsHolds(cons[k], eps)

\* clamp(x, 0, hi) for the hi of the call
ClampOfCall(x) == clamp(x, Zero, call.C_ub)

\* C21: for every row abstract_clamp of the constrained zonotope transforms in
\* a mixed branch, in both variants, and every checked x between the row's
\* bounds, y = clamp(x, 0, hi) is a value the new row takes with its new noise
\* symbol in [-1,1], and there every constraint appended for the row holds
\* (read as row.eps + bound >= 0).  Stated where the result is held exactly.
C21_ClampConstraintsValid ==
    (pc = "uc_act" /\ call.op = "abstract_clamp" /\ Held(czonotope)) =>
        \A r \in 1..Len(call.before.W) :
            call.cases[r] \in {"mixed_both", "mixed_low", "mixed_high"} =>
                LET cons == CZClampRow(call.before, r, call.C_ub, version, call.cases[r]).cons
                IN  /\ \A k \in 1..Len(cons) :
                           \E j \in 1..Len(czonotope.constraints) : czonotope.constraints[j] = cons[k]
                    /\ \A s \in GridSteps :
                           RowValidAt(ClampOfCall, r, SignVec(call.before.W[r], s), cons)

\* np.maximum(0, x)
Relu(x) == RMax(Zero, x)

\* C22: for every row abstract_ReLU of the zonotope transforms with l < 0 < u
\* the new row is a.row with the new noise coefficient c/2 in its own column
\* and the bias a.bias + c/2, a = u/(u-l) and c = -u.l/(u-l), so that at every
\* checked x between l and u the row ranges over [a.x, a.x + c], and relu(x)
\* lies in that range; for u <= 0 the new row and bias are 0, and for l >= 0
\* the row and the bias are unchanged.  Checked where the result is held
\* exactly.
C22_ReLURelaxationSound ==
    (pc = "u_act" /\ call.op = "abstract_ReLU" /\ Held(zonotope)) =>
        \A r \in 1..Len(call.before.W) :
            LET l   == LowerBounds(call.before)[r]
                u   == UpperBounds(call.before)[r]
                m   == Cols(call.before.W)
                old == call.before.W[r]
                new == zonotope.W[r]
            IN  /\ (RLt(l, Zero) /\ RGt(u, Zero)) =>
                      LET a == RDiv(u, RSub(u, l))
                          c == RDiv(RNeg(RMul(u, l)), RSub(u, l))
                      IN  /\ SubSeq(new, 1, m) = VecScale(a, old)
                          /\ \A j \in (m + 1)..Len(new) :
                                 new[j] = IF j = m + r THEN RHalf(c) ELSE Zero
                          /\ zonotope.b[r] = RAdd(RMul(a, call.before.b[r]), RHalf(c))
                          /\ \A s \in GridSteps :
                                 LET e    == SignVec(old, s)
                                     x    == RAdd(Dot(old, e), call.before.b[r])
                                     rest == RAdd(Dot(SubSeq(new, 1, m), e), zonotope.b[r])
                                     lo   == RSub(rest, RAbs(new[m + r]))
                                     hi   == RAdd(rest, RAbs(new[m + r]))
                                 IN  /\ lo = RMul(a, x)
                                     /\ hi = RAdd(RMul(a, x), c)
                                     /\ InInterval(Relu(x), <<lo, hi>>)
                /\ RLe(u, Zero) =>
                      /\ zonotope.b[r] = Zero
                      /\ \A j \in 1..Len(new) : new[j] = Zero
                /\ (RGt(u, Zero) /\ RGe(l, Zero)) =>
                      /\ zonotope.b[r] = call.before.b[r]
                      /\ new = PadRight(old, Len(new))

\* C22 witness: abstract_ReLU has been applied to a zonotope with an unstable
\* row whose bounds are not symmetric and whose new noise coefficient is not 0,
\* and the result is held exactly.
C22_Witness ==
    /\ pc = "u_act"
    /\ call.op = "abstract_ReLU"
    /\ \E r \in 1..Len(call.before.W) :
          /\ call.cases[r] = "unstable"
          /\ RAdd(LowerBounds(call.before)[r], UpperBounds(call.before)[r]) # Zero
          /\ zonotope.W[r][Cols(call.before.W) + r] # Zero
    /\ Held(zonotope)

\* C23: for every row abstract_ReLU of the constrained zonotope transforms
\* with l < 0 < u, in both variants, and every checked x between l and u,
\* y = relu(x) is a value the new row takes with its new noise symbol in
\* [-1,1], and there both constraints appended for the row hold (read as
\* row.eps + bound >= 0).  Checked where the result is held exactly.
C23_ReLUConstraintsValid ==
    (pc = "uc_act" /\ call.op = "abstract_ReLU" /\ Held(czonotope)) =>
        \A r \in 1..Len(call.before.W) :
            (/\ call.cases[r] = "unstable"
             /\ RLt(LowerBounds(call.before)[r], Zero)
             /\ RGt(UpperBounds(call.before)[r], Zero)) =>
                LET cons == CZReLURow(call.before, r, version, call.cases[r]).cons
                IN  /\ Len(cons) = 2
                    /\ \A k \in 1..Len(cons) :
                           \E j \in 1..Len(czonotope.constraints) : czonotope.constraints[j] = cons[k]
                    /\ \A s \in GridSteps :
                           RowValidAt(Relu, r, SignVec(call.before.W[r], s), cons)

\* C23 witness: the rectangle variant of abstract_ReLU has been applied to a
\* constrained zonotope with two rows, the second of them unstable, and has
\* stored its constraints; the result is held exactly.
C23_Witness ==
    /\ pc = "uc_act"
    /\ call.op = "abstract_ReLU"
    /\ version = "rectangle"
    /\ Len(call.before.W) = 2
    /\ call.cases[2] = "unstable"
    /\ Len(czonotope.constraints) >= 2
    /\ Held(czonotope)

\* the branch the transformer that runs in this step takes for row r of the
\* constrained zonotope
BranchOf(r) == call'.cases[r]

\* the rows for which that transformer takes an unstable or mixed branch
NonStableRows ==
    {r \in 1..Len(czonotope.W) :
        BranchOf(r) \in {"unstable", "mixed_both", "mixed_low", "mixed_high"}}

\* a step of abstract_ReLU or abstract_clamp in the standard variant
StandardTransformerStep ==
    /\ pc \in {"c_act", "c_clamp"}
    /\ pc' = "c_loop"
    /\ version = "standard"

\* C24 as the specification states it: in the standard variant one
\* application of abstract_ReLU or abstract_clamp raises the constraint count
\* K by exactly twice the number of unstable or mixed dimensions.
C24_TwoPerDimension ==
    [][StandardTransformerStep =>
          Len(czonotope'.constraints)
              = Len(czonotope.constraints) + 2 * Cardinality(NonStableRows)]_vars

\* C24 (amended): in the standard variant one application of abstract_ReLU or
\* abstract_clamp raises K by two for every unstable dimension of ReLU and
\* every mixed dimension of clamp, and by three for a clamp dimension with
\* l < 0 and C_ub <= u; a stable dimension adds nothing.
C24_TwoOrThreePerDimension ==
    [][StandardTransformerStep =>
          Len(czonotope'.constraints)
              = Len(czonotope.constraints) + 2 * Cardinality(NonStableRows)
                  + Cardinality({r \in NonStableRows : BranchOf(r) = "mixed_both"})]_vars

\* C24 witness: the standard variant of abstract_clamp has run and has left
\* an odd number of constraints, three of them from one dimension.
C24_Witness ==
    /\ pc = "c_loop"
    /\ call.op = "abstract_clamp"
    /\ version = "standard"
    /\ Len(czonotope.constraints) >= 3
    /\ Len(czonotope.constraints) % 2 = 1

\* the generator and center of the constrained zonotope, as a zonotope
AsZonotope(cz) == [W |-> cz.W, b |-> cz.b, bcol |-> cz.bcol]

\* two numbers are equal, as far as the model holds them
SameNumber(x, y) == x = y \/ ~Known(x) \/ ~Known(y)

\* two abstract values have the same generator matrix and the same center
SameAffine(x, y) ==
    /\ Len(x.W) = Len(y.W) /\ Len(x.b) = Len(y.b)
    /\ \A r \in 1..Len(x.W) :
          /\ Len(x.W[r]) = Len(y.W[r])
          /\ \A j \in 1..Len(x.W[r]) : SameNumber(x.W[r][j], y.W[r][j])
    /\ \A r \in 1..Len(x.b) : SameNumber(x.b[r], y.b[r])

\* C25: with the standard variant every step of a constrained-zonotope
\* propagation gives the generator and the center the zonotope transformer of
\* the same name gives from the same generator and center, and when the
\* propagation has run over every layer they equal those of the zonotope
\* propagated through the same network from the same box.
C25_Lockstep ==
    [][version' = "standard" =>
          /\ (pc = "z_done" /\ pc' = "c_loop") =>
                SameAffine(czonotope', abstract_to_zonotope(StartBox(layers, quantized, box)))
          /\ (pc = "c_loop" /\ pc' \in {"c_loop", "c_act"}) =>
                SameAffine(czonotope', ZLinearTransformation(AsZonotope(czonotope),
                                                            layers[i].weights, layers[i].biases))
          /\ (pc = "c_act" /\ pc' = "c_loop") =>
                SameAffine(czonotope', ZAbstractReLU(AsZonotope(czonotope), call'.cases))
          /\ (pc = "c_act" /\ pc' = "c_clamp") =>
                SameAffine(czonotope', ZAbstractFloor(AsZonotope(czonotope)))
          /\ (pc = "c_clamp" /\ pc' = "c_loop") =>
                SameAffine(czonotope', ZAbstractClamp(AsZonotope(czonotope), layers[i].upper_bound,
                                                     call'.cases))
          /\ pc' = "c_done" => SameAffine(czonotope', zonotope')]_vars

\* C25 witness: a standard propagation has run over a quantized network of
\* two-row layers, with constraints stored, and the zonotope propagation of
\* the same box ended with the same generator, every number of it held.
C25_Witness ==
    /\ pc = "c_done"
    /\ version = "standard"
    /\ quantized
    /\ Len(czonotope.constraints) >= 2
    /\ \E k \in 1..Len(layers) : OutDim(layers[k]) = 2 /\ layers[k].activation = "clamp"
    /\ Held(czonotope)
    /\ czonotope.W = zonotope.W

\* a step of abstract_ReLU, abstract_clamp or abstract_floor, of either domain
ActivationStep ==
    \/ pc = "z_act" /\ pc' \in {"z_loop", "z_clamp"}
    \/ pc = "z_clamp" /\ pc' = "z_loop"
    \/ pc = "c_act" /\ pc' \in {"c_loop", "c_clamp"}
    \/ pc = "c_clamp" /\ pc' = "c_loop"

\* a step of linear_transformation, of either domain
LinearStep ==
    \/ pc = "z_loop" /\ pc' \in {"z_loop", "z_act"}
    \/ pc = "c_loop" /\ pc' \in {"c_loop", "c_act"}

\* the abstract value a step of the zonotope or of the constrained-zonotope
\* propagation works on, before and after the step
ValueBefore == IF pc \in {"z_loop", "z_act", "z_clamp"} THEN zonotope ELSE czonotope

ValueAfter == IF pc \in {"z_loop", "z_act", "z_clamp"} THEN zonotope' ELSE czonotope'

\* row r took a stable branch of the transformer about to run (abstract_floor
\* has no stable branch)
StableRow(r) ==
    LET l == LowerBounds(ValueBefore)[r]
        u == UpperBounds(ValueBefore)[r]
    IN  IF pc \in {"z_act", "c_act"} /\ layers[i].activation = "relu"
        THEN ReLUCase(l, u) \in {"zero", "identity"}
        ELSE IF pc \in {"z_clamp", "c_clamp"}
        THEN ClampCase(l, u, layers[i].upper_bound) \in {"below", "above", "inside"}
        ELSE FALSE

\* C26: abstract_ReLU, abstract_clamp and abstract_floor, of both domains,
\* turn d rows and m columns into d rows of m + d columns each, the new column
\* m + r being zero outside row r and entirely zero when row r is stable;
\* linear_transformation keeps the column count; after every transformer the
\* generator has as many rows as the center has entries.
C26_OwnColumnPerDimension ==
    [][(ActivationStep =>
            LET d == Len(ValueBefore.W)
                m == Cols(ValueBefore.W)
                W == ValueAfter.W
            IN  /\ Len(W) = d
                /\ \A r \in 1..d : Len(W[r]) = m + d
                /\ \A r \in 1..d : \A q \in 1..d :
                       (q # r \/ StableRow(r)) => W[q][m + r] \in {Zero, Inexact}
                /\ Len(ValueAfter.b) = d)
       /\ (LinearStep =>
            /\ Cols(ValueAfter.W) = Cols(ValueBefore.W)
            /\ \A r \in 1..Len(ValueAfter.W) : Len(ValueAfter.W[r]) = Cols(ValueBefore.W)
            /\ Len(ValueAfter.b) = Len(ValueAfter.W))]_vars

\* C26 witness: a transformer has given two rows their own non-zero new
\* columns, after earlier noise columns.
C26_Witness ==
    /\ pc \in {"z_loop", "c_loop"}
    /\ call.op \in {"abstract_ReLU", "abstract_clamp"}
    /\ LET W == IF pc = "z_loop" THEN zonotope.W ELSE czonotope.W
       IN  /\ Len(W) = 2
           /\ Cols(W) >= 4
           /\ Known(W[1][Cols(W) - 1]) /\ W[1][Cols(W) - 1] # Zero
           /\ Known(W[2][Cols(W)]) /\ W[2][Cols(W)] # Zero

\* the exponents quantize gives the layer at position k of n layers (the one
\* layer of a one-layer network is both layers[0] and layers[-1])
PositionExponents(c, v, n, k) ==
    (IF k = 1 THEN {FirstExponents(c, v)} ELSE {})
    \cup (IF k = n THEN {LastExponents(c, v, n)} ELSE {})
    \cup (IF 1 < k /\ k < n THEN {MiddleExponents(c, v)} ELSE {})

\* the weights and biases of layer `after` are those of layer `before`
\* quantized once with exponents e
QuantizedOnce(before, after, c, e) ==
    /\ after.weights = QuantizeLayer(before, c, e[1], e[2]).weights
    /\ after.biases = QuantizeLayer(before, c, e[1], e[2]).biases

\* C27: Network.quantize rewrites every original layer exactly once: each
\* resulting weight and bias is the scaled, floored, clamped and rescaled
\* original value, with the exponents of the layer's position and the version.
C27_EachLayerQuantizedOnce ==
    [][(call'.op = "quantize" /\ nquant' = nquant + 1 /\ err' = "none") =>
          \A k \in 1..Len(layers) :
              \E e \in PositionExponents(call'.configuration, call'.version, Len(layers), k) :
                  QuantizedOnce(layers[k], layers'[k + 1], call'.configuration, e)]_vars

\* the scale exponent of the values that enter original layer k of n: Fin for
\* the first layer, and the scale of the weight term of layer k - 1 after it
RECURSIVE InputScale(_, _, _, _)
InputScale(c, v, n, k) ==
    IF k = 1 THEN c.Fin
    ELSE InputScale(c, v, n, k - 1)
         + (IF k - 1 = 1 THEN FirstExponents(c, v) ELSE MiddleExponents(c, v))[1] + c.Fw

\* scale exponents of the two terms of W x + b in layer k, rescaled by e
WeightTermScale(c, v, n, k, e) == InputScale(c, v, n, k) + e[1] + c.Fw

BiasTermScale(c, e) == e[2] + c.Fb

\* C28: in a quantized network, under both versions and for every number of
\* layers, the weight term and the bias term of every layer are on the same
\* power-of-two scale, the input scale of the first original layer being Fin
\* and each layer's output scale the next layer's input scale.
C28_ConsistentScale ==
    (call.op = "quantize" /\ err = "none") =>
        LET c == call.configuration
            v == call.version
            n == Len(layers) - 1
        IN  \A k \in 1..n : \E e \in PositionExponents(c, v, n, k) :
                WeightTermScale(c, v, n, k, e) = BiasTermScale(c, e)

\* points of a box: in every dimension the two ends and the middle
RECURSIVE BoxSamples(_)
BoxSamples(b) ==
    IF b = <<>> THEN {<<>>}
    ELSE {<<x>> \o rest : x \in {b[1][1], RHalf(RAdd(b[1][1], b[1][2])), b[1][2]},
                          rest \in BoxSamples(Tail(b))}

\* C29: interval propagation is sound and well-formed: for every box with
\* lower <= upper, every layer (any weight signs; identity, relu or clamp tag)
\* and every x in the box, each coordinate of Layer.propagate(x) lies in the
\* interval Layer.propagate_box returns for it, and every returned interval
\* has lower <= upper.
C29_IntervalPropagationSound ==
    pc = "u_boxed" =>
        /\ \A r \in 1..Len(out_box.rows) : RLe(out_box.rows[r][1], out_box.rows[r][2])
        /\ \A x \in BoxSamples(box) : \A r \in 1..Len(out_box.rows) :
               /\ RLe(out_box.rows[r][1], LayerPropagate(layers[1], x)[r])
               /\ RLe(LayerPropagate(layers[1], x)[r], out_box.rows[r][2])

\* C30: a Layer built with the clamp tag keeps both of its bounds, 0
\* included: after quantize with a configuration that has all its keys, the
\* prepended input-quantization layer clamps to [Clb_in, Cub_in], Network.propagate
\* does not fail on it, and no propagation of the network raises
\* AttributeError for a bound that was never stored.
C30_ZeroBoundsKept ==
    [][/\ (call'.op = "quantize" /\ nquant' = nquant + 1 /\ err' = "none") =>
             /\ layers'[1].activation = "clamp"
             /\ layers'[1].lower_bound = call'.configuration.Clb_in
             /\ layers'[1].upper_bound = call'.configuration.Cub_in
             /\ ~ClampAttrMissing(layers'[1])
       /\ err' # "AttributeError"]_vars
====
